---- MODULE Spec2Model ----
(***************************************************************************)
(* Document Filer: the document-to-suggestion pipeline.                    *)
(*                                                                         *)
(*   docfiler/image_processor.py  ImageProcessor (page selection, resize,  *)
(*                                process_pdf / process_image /            *)
(*                                process_document)                        *)
(*   docfiler/api_clients.py      ClaudeClient._parse_json_response, the   *)
(*                                three adapters, create_client            *)
(*   docfiler/config.py           Config, load_config                      *)
(*   docfiler/vlm_service.py      VLMService, FilingSuggestion             *)
(*   docfiler/cli/context_generator.py  _generate_with_provider            *)
(*                                                                         *)
(* Each component is checked under a specification of its own:             *)
(*   SpecPages   _get_page_indices applied to a page count                 *)
(*   SpecResize  _resize_image applied to an image, and to its own output  *)
(*   Spec        process_document applied to a path                        *)
(*   SpecParse   _parse_json_response applied to a reply text              *)
(*   SpecConfig  load_config applied to an environment                     *)
(*   SpecFactory create_client applied to a provider name                  *)
(*   SpecRequest an adapter's analyze_document, _generate_with_provider    *)
(*   SpecService configuration, VLMService construction and one            *)
(*               VLMService.analyze_document call, step by step            *)
(*   SpecWorkers two analyze_document calls running concurrently           *)
(* Text (suffixes, reply texts) is a sequence of one-character strings.    *)
(***************************************************************************)
EXTENDS Integers, Sequences, FiniteSets, TLC

VARIABLES
    num_pages,      \* process_pdf: len(reader.pages)
    page_indices,   \* process_pdf: the list _get_page_indices returned
    pages_pc,       \* "start" | "done"
    max_dimension,  \* ImageProcessor.max_dimension
    img,            \* the PIL image handed to _resize_image
    resized,        \* what _resize_image(img) gave
    resized_again,  \* what _resize_image gave on its own output
    doc,            \* what the path handed to process_document resolves to
    outcome,        \* what process_document did: returned a list, or raised
    payload,        \* the text the backend's reply is built around
    wrap,           \* how the reply wraps it: fence, whitespace, prose
    response_text,  \* the reply text handed to _parse_json_response
    parsed,         \* what _parse_json_response(response_text) did
    plain,          \* what _parse_json_response(payload) did
    environ,        \* the process environment load_config reads
    loaded,         \* what load_config() did
    service,        \* the VLMService constructed from the Config, if any
    svc,            \* one VLMService.analyze_document call: position, locals
    factory_args,   \* create_client's arguments
    made,           \* what create_client did
    req,            \* an adapter call's arguments, a generator call's config
    request,        \* the request the adapter sent
    answer,         \* what the adapter's analyze_document did
    gen_request,    \* the request _generate_with_provider sent
    workers,        \* concurrent analyze_document calls: position, locals
    logs,           \* the files of the logs directory, by name
    clock,          \* the wall clock, in seconds
    prompt_args,    \* _build_prompt: prompt_template, context, extra_instructions
    built_prompt,   \* what _build_prompt returned
    disk,           \* the file system: which file lies at each path
    files,          \* MainWindow.files
    checked,        \* the check state of each row of file_list_model
    suggestions,    \* MainWindow.suggestions
    current_file_index, \* MainWindow.current_file_index
    filename_edit,  \* FileViewer.filename_edit's text
    dest_edit,      \* FileViewer.dest_edit's text
    buttons,        \* enabled: process_button, context_button, the window
    processing_thread, \* the ProcessingThread: position in run, files, idx
    context_thread, \* the ContextGenerationThread: position in run
    events,         \* signals queued for the main thread, oldest first
    dialog,         \* the modal confirmation open, with the handler's locals
    app,            \* "running", or "aborted" after an exception in a slot
    emitted,        \* history: the signals the current batch emitted
    started,        \* history: user actions, batches started and finished
    typed,          \* history: the user edited the filename/destination
    failed,         \* history: paths whose latest recorded analysis raised
    last_op         \* history: what the last rename or move did

vars == <<num_pages, page_indices, pages_pc, max_dimension, img, resized,
          resized_again, doc, outcome, payload, wrap, response_text, parsed,
          plain, environ, loaded, service, svc, factory_args, made, req, request,
          answer, gen_request, workers, logs, clock, prompt_args,
          built_prompt, disk, files, checked, suggestions, current_file_index,
          filename_edit, dest_edit, buttons, processing_thread, context_thread,
          events, dialog, app, emitted, started, typed, failed, last_op>>

----------------------------------------------------------------------------
(* Bounds of the model. *)

MaxPages == 60
MaxSide == 6
MaxDim == 4

(* Program constants. *)

DefaultMaxDimension == 2048
DefaultTargetDpi == 300
PlaceholderSide == 100
TestLongSide == 3000
TestShortSide == 2000

Max(a, b) == IF a >= b THEN a ELSE b
Min(a, b) == IF a <= b THEN a ELSE b

Sides == (1..MaxSide) \cup {TestShortSide, TestLongSide}
MaxDimensions == (1..MaxDim) \cup {DefaultMaxDimension}
Modes == {"RGB", "L", "RGBA"}

----------------------------------------------------------------------------
(* ImageProcessor._get_page_indices *)

get_page_indices_ceil(n) ==
    IF n = 1 THEN <<0>>
    ELSE IF n = 2 THEN <<0, 1>>
    ELSE IF n = 3 THEN <<0, 1, 2>>
    ELSE <<0, (n + 1) \div 2, n - 1>>

get_page_indices_no_two(n) ==
    IF n = 1 THEN <<0>>
    ELSE IF n = 3 THEN <<0, 1, 2>>
    ELSE <<0, n \div 2, n - 1>>

get_page_indices(n) ==
    IF n = 1 THEN <<0>>
    ELSE IF n = 2 THEN <<0, 1>>
    ELSE IF n = 3 THEN <<0, 1, 2>>
    ELSE LET middle == n \div 2
         IN  <<0, middle, n - 1>>

----------------------------------------------------------------------------
(* ImageProcessor._resize_image                                            *)
(*                                                                         *)
(* An image is [w, h, mode].  The result is [st, w, h, mode]: st = "image" *)
(* when an image comes back, "raised" when Image.resize rejects the target *)
(* size (Pillow raises ValueError "height and width must be > 0" for an    *)
(* axis below 1).                                                          *)
(*                                                                         *)
(* scale = max_dimension / b is a double and int(a * scale) truncates the  *)
(* double product.  The exact quotient a * max_dimension / b has           *)
(* denominator b, so the double product truncates to the exact floor       *)
(* unless the quotient is an integer k and the product rounds below it,    *)
(* which gives k - 1 (49 * (1 / 49) = 0.9999999999999999).  low is that    *)
(* rounding outcome; both outcomes are modelled.                           *)
(***************************************************************************)

NoResult == [st |-> "none", w |-> 0, h |-> 0, mode |-> ""]

int_scaled(a, m, b, low) ==
    LET q == (a * m) \div b
    IN  IF (a * m) % b = 0 /\ low THEN q - 1 ELSE q

pil_resize(im, new_width, new_height) ==
    IF new_width < 1 \/ new_height < 1
    THEN [st |-> "raised", w |-> new_width, h |-> new_height, mode |-> im.mode]
    ELSE [st |-> "image", w |-> new_width, h |-> new_height, mode |-> im.mode]

as_is(im) == [st |-> "image", w |-> im.w, h |-> im.h, mode |-> im.mode]

resize_image_upscale(im, m, low) ==
    LET width == im.w
        height == im.h
    IN  IF width > height
        THEN pil_resize(im, m, int_scaled(height, m, width, low))
        ELSE pil_resize(im, int_scaled(width, m, height, low), m)

resize_image(im, m, low) ==
    LET width == im.w
        height == im.h
    IN  IF width > height
        THEN IF width > m
             THEN pil_resize(im, m, int_scaled(height, m, width, low))
             ELSE as_is(im)
        ELSE IF height > m
             THEN pil_resize(im, int_scaled(width, m, height, low), m)
             ELSE as_is(im)

----------------------------------------------------------------------------
(* Text: str.lower() and the suffixes of the paths tried. *)

UpperCase == <<"A", "B", "C", "D", "E", "F", "G", "H", "I", "J", "K", "L", "M",
               "N", "O", "P", "Q", "R", "S", "T", "U", "V", "W", "X", "Y", "Z">>
LowerCase == <<"a", "b", "c", "d", "e", "f", "g", "h", "i", "j", "k", "l", "m",
               "n", "o", "p", "q", "r", "s", "t", "u", "v", "w", "x", "y", "z">>

lower_char(c) ==
    IF \E i \in 1..Len(UpperCase) : UpperCase[i] = c
    THEN LowerCase[CHOOSE i \in 1..Len(UpperCase) : UpperCase[i] = c]
    ELSE c

lower(s) == [i \in 1..Len(s) |-> lower_char(s[i])]

SfxPdf == <<".", "p", "d", "f">>
RasterSuffixes == {<<".", "p", "n", "g">>, <<".", "j", "p", "g">>,
                   <<".", "j", "p", "e", "g">>, <<".", "t", "i", "f", "f">>,
                   <<".", "t", "i", "f">>, <<".", "b", "m", "p">>}

(* Path(file_path).suffix of the paths tried: the supported ones, some of  *)
(* them in other cases, and unsupported ones (the empty suffix included).  *)
Suffixes ==
    {SfxPdf, <<".", "P", "D", "F">>, <<".", "P", "d", "f">>}
    \cup RasterSuffixes
    \cup {<<".", "P", "N", "G">>, <<".", "J", "p", "g">>}
    \cup {<<".", "t", "x", "t">>, <<".", "T", "X", "T">>, <<".", "p", "d">>,
          <<".", "p", "d", "f", "x">>, <<>>}

----------------------------------------------------------------------------
(* What a path resolves to.                                                *)
(*   kind    "missing" (nothing there: Path.exists() is False), "dir",     *)
(*           or a file holding a "pdf", a "raster" image or "junk"         *)
(*   suffix  Path.suffix                                                   *)
(*   pages   a pdf's pages, each [resources, has_xobject, objs]            *)
(*   image   a raster file's image [w, h, mode]                            *)
(* An XObject is [subtype, colorspace, decodable, w, h]; decodable says    *)
(* whether Image.frombytes accepts obj.get_data() for the mode and size    *)
(* (it raises on a stream that is not raw pixels of that size).            *)
(***************************************************************************)

MaxPdfPages == 4

NoImage == [w |-> 0, h |-> 0, mode |-> ""]

XImage(cs, ok, w, h) ==
    [subtype |-> "/Image", colorspace |-> cs, decodable |-> ok, w |-> w, h |-> h]
XForm == [subtype |-> "/Form", colorspace |-> "", decodable |-> FALSE,
          w |-> 0, h |-> 0]

PgNoResources == [resources |-> FALSE, has_xobject |-> FALSE, objs |-> <<>>]
PgText == [resources |-> TRUE, has_xobject |-> FALSE, objs |-> <<>>]
PgJpeg == [resources |-> TRUE, has_xobject |-> TRUE,
           objs |-> <<XImage("/DeviceRGB", FALSE, 3, 2)>>]
PgScanSmall == [resources |-> TRUE, has_xobject |-> TRUE,
                objs |-> <<XImage("/DeviceGray", TRUE, 2, 3)>>]
PgScanLarge == [resources |-> TRUE, has_xobject |-> TRUE,
                objs |-> <<XImage("/DeviceRGB", TRUE, TestLongSide, TestShortSide)>>]
PgScanThin == [resources |-> TRUE, has_xobject |-> TRUE,
               objs |-> <<XImage("", TRUE, MaxSide, 1)>>]
PgMixed == [resources |-> TRUE, has_xobject |-> TRUE,
            objs |-> <<XForm, XImage("/DeviceCMYK", FALSE, 4, 4),
                       XImage("/DeviceCMYK", TRUE, 5, 4),
                       XImage("/DeviceRGB", TRUE, 1, 1)>>]

PageKinds == {PgNoResources, PgText, PgJpeg, PgScanSmall, PgScanLarge,
              PgScanThin, PgMixed}

PdfPages == UNION {[1..n -> PageKinds] : n \in 1..MaxPdfPages}

Document(kind, suffix, pages, image) ==
    [kind |-> kind, suffix |-> suffix, pages |-> pages, image |-> image]

RasterImages == [w : Sides, h : Sides, mode : Modes]

Documents ==
    {Document(k, sfx, <<>>, NoImage) :
        k \in {"missing", "dir", "junk"}, sfx \in Suffixes}
    \cup {Document("pdf", SfxPdf, pp, NoImage) : pp \in PdfPages}
    \cup {Document("pdf", sfx, <<PgScanSmall>>, NoImage) : sfx \in Suffixes}
    \cup {Document("raster", sfx, <<>>, im) :
            sfx \in Suffixes, im \in RasterImages}

----------------------------------------------------------------------------
(* ImageProcessor: process_document, process_pdf, process_image,           *)
(* _image_to_bytes.  The outcome of a call is [st, error, msg, images]:    *)
(* st = "returned" with the list of PNG images, or "raised" with the       *)
(* exception's class and message.                                          *)
(***************************************************************************)

NoOutcome == [st |-> "none", error |-> "", msg |-> "", images |-> <<>>]
Returned(images) ==
    [st |-> "returned", error |-> "", msg |-> "", images |-> images]
Raised(error, msg) ==
    [st |-> "raised", error |-> error, msg |-> msg, images |-> <<>>]

image_to_bytes(im) ==
    [format |-> "PNG", w |-> im.w, h |-> im.h, mode |-> im.mode,
     dpi |-> DefaultTargetDpi]

xobject_mode(obj) ==
    IF obj.colorspace # ""
    THEN IF obj.colorspace = "/DeviceRGB" THEN "RGB"
         ELSE IF obj.colorspace = "/DeviceGray" THEN "L"
         ELSE "RGB"
    ELSE "RGB"

(* The inner loop without its break: every image of the page. *)
RECURSIVE page_images_all(_, _, _, _)
page_images_all(objs, k, m, low) ==
    IF k > Len(objs) THEN <<>>
    ELSE LET obj == objs[k]
             im == [w |-> obj.w, h |-> obj.h, mode |-> xobject_mode(obj)]
             processed == resize_image(im, m, low)
             found == IF obj.subtype = "/Image" /\ obj.decodable
                         /\ processed.st = "image"
                      THEN <<image_to_bytes(processed)>>
                      ELSE <<>>
         IN  found \o page_images_all(objs, k + 1, m, low)

(* The inner loop over a page's XObjects from the k-th on: the first image *)
(* whose frombytes, _resize_image and _image_to_bytes all succeed, as a    *)
(* list of one; the empty list when every one is skipped or fails.         *)
RECURSIVE page_images(_, _, _, _)
page_images(objs, k, m, low) ==
    IF k > Len(objs) THEN <<>>
    ELSE LET obj == objs[k]
             im == [w |-> obj.w, h |-> obj.h, mode |-> xobject_mode(obj)]
             processed == resize_image(im, m, low)
         IN  IF obj.subtype = "/Image" /\ obj.decodable /\ processed.st = "image"
             THEN <<image_to_bytes(processed)>>
             ELSE page_images(objs, k + 1, m, low)

RECURSIVE pdf_images(_, _, _, _, _)
pdf_images(pages, indices, j, m, lows) ==
    IF j > Len(indices) THEN <<>>
    ELSE LET page == pages[indices[j] + 1]
             found == IF page.has_xobject
                      THEN page_images(page.objs, 1, m, lows[j])
                      ELSE <<>>
         IN  found \o pdf_images(pages, indices, j + 1, m, lows)

process_pdf(d, m, lows) ==
    IF d.kind = "dir" THEN Raised("IsADirectoryError", "")
    ELSE IF d.kind # "pdf" THEN Raised("PdfReadError", "")
    ELSE
    LET indices == get_page_indices(Len(d.pages))
        images == pdf_images(d.pages, indices, 1, m, lows)
        placeholder == [w |-> PlaceholderSide, h |-> PlaceholderSide,
                        mode |-> "RGB"]
    IN  IF \E j \in 1..Len(indices) : ~d.pages[indices[j] + 1].resources
        THEN Raised("KeyError", "/Resources")
        ELSE IF images = <<>>
             THEN Returned(<<image_to_bytes(placeholder)>>)
             ELSE Returned(images)

process_image(d, m, lows) ==
    IF d.kind = "dir" THEN Raised("IsADirectoryError", "")
    ELSE IF d.kind # "raster" THEN Raised("UnidentifiedImageError", "")
    ELSE
    LET opened == d.image
        converted == IF opened.mode \notin {"RGB", "L"}
                     THEN [opened EXCEPT !.mode = "RGB"]
                     ELSE opened
        processed == resize_image(converted, m, lows[1])
    IN  IF processed.st = "image"
        THEN Returned(<<image_to_bytes(processed)>>)
        ELSE Raised("ValueError", "height and width must be > 0")

process_document_suffix_first(d, m, lows) ==
    LET suffix == lower(d.suffix)
    IN  IF suffix = SfxPdf /\ d.kind # "missing"
        THEN process_pdf(d, m, lows)
        ELSE IF suffix \in RasterSuffixes /\ d.kind # "missing"
        THEN process_image(d, m, lows)
        ELSE IF suffix \notin RasterSuffixes \cup {SfxPdf}
        THEN Raised("ValueError", "Unsupported file format")
        ELSE Raised("FileNotFoundError", "File not found")

process_document(d, m, lows) ==
    IF d.kind = "missing"
    THEN Raised("FileNotFoundError", "File not found")
    ELSE LET suffix == lower(d.suffix)
         IN  IF suffix = SfxPdf
             THEN process_pdf(d, m, lows)
             ELSE IF suffix \in RasterSuffixes
             THEN process_image(d, m, lows)
             ELSE Raised("ValueError", "Unsupported file format")

----------------------------------------------------------------------------
(* Text helpers of _parse_json_response: str.strip, startswith, endswith,  *)
(* slicing.                                                                *)

PyWhitespace == {" ", "\t", "\n", "\r", "\f"}

RECURSIVE lstrip(_)
lstrip(s) ==
    IF s # <<>> /\ Head(s) \in PyWhitespace THEN lstrip(Tail(s)) ELSE s

RECURSIVE rstrip(_)
rstrip(s) ==
    IF s # <<>> /\ s[Len(s)] \in PyWhitespace
    THEN rstrip(SubSeq(s, 1, Len(s) - 1))
    ELSE s

strip(s) == rstrip(lstrip(s))

startswith(s, prefix) ==
    Len(s) >= Len(prefix) /\ SubSeq(s, 1, Len(prefix)) = prefix

endswith(s, suffix) ==
    Len(s) >= Len(suffix) /\ SubSeq(s, Len(s) - Len(suffix) + 1, Len(s)) = suffix

drop_first(s, k) == SubSeq(s, Min(k, Len(s)) + 1, Len(s))
drop_last(s, k) == SubSeq(s, 1, Len(s) - Min(k, Len(s)))

(* The character U+0060 of a fence marker (three of them open or close a   *)
(* fenced block); written by name.                                         *)
Backtick == "BACKTICK"

FenceJson == <<Backtick, Backtick, Backtick, "j", "s", "o", "n">>
FenceBare == <<Backtick, Backtick, Backtick>>

----------------------------------------------------------------------------
(* json.loads, on texts without string escapes and number exponents.       *)
(* A decoded value is [t, s, n, m, a]: t the type, s a string's            *)
(* characters, n a number as <<mantissa, decimal places>>, m an object's   *)
(* set of <<key, value>> pairs (the last of equal keys wins), a an         *)
(* array's items.  With strict = FALSE the constants NaN, Infinity and     *)
(* -Infinity are values, as in Python's decoder; strict = TRUE is the      *)
(* JSON grammar of RFC 8259.                                               *)
(***************************************************************************)

JsonWhitespace == {" ", "\t", "\n", "\r"}
Digits == <<"0", "1", "2", "3", "4", "5", "6", "7", "8", "9">>
IsDigit(c) == \E k \in 1..10 : Digits[k] = c
DigitValue(c) == (CHOOSE k \in 1..10 : Digits[k] = c) - 1

JNull == [t |-> "null", s |-> <<>>, n |-> <<0, 0>>, m |-> {}, a |-> <<>>]
JLiteral(t) == [JNull EXCEPT !.t = t]
JString(x) == [JNull EXCEPT !.t = "string", !.s = x]
JNumber(mant, scale) == [JNull EXCEPT !.t = "number", !.n = <<mant, scale>>]
JObject(members) == [JNull EXCEPT !.t = "object", !.m = members]
JArray(items) == [JNull EXCEPT !.t = "array", !.a = items]

Fail == [ok |-> FALSE, val |-> JNull, next |-> 0]
Ok(v, next) == [ok |-> TRUE, val |-> v, next |-> next]

At(s, i) == IF i >= 1 /\ i <= Len(s) THEN s[i] ELSE ""

StartsWithAt(s, i, lit) ==
    i + Len(lit) - 1 <= Len(s) /\ SubSeq(s, i, i + Len(lit) - 1) = lit

RECURSIVE skip_ws(_, _)
skip_ws(s, i) ==
    IF At(s, i) \in JsonWhitespace THEN skip_ws(s, i + 1) ELSE i

(* The index of the closing quote of a string whose first character is at  *)
(* j; 0 when the string is unterminated or holds a control character.      *)
RECURSIVE string_end(_, _)
string_end(s, j) ==
    IF j > Len(s) THEN 0
    ELSE IF s[j] = "\"" THEN j
    ELSE IF s[j] \in {"\n", "\t", "\r", "\f", "\\"} THEN 0
    ELSE string_end(s, j + 1)

RECURSIVE digits_end(_, _)
digits_end(s, j) == IF IsDigit(At(s, j)) THEN digits_end(s, j + 1) ELSE j

RECURSIVE digits_value(_)
digits_value(ds) ==
    IF ds = <<>> THEN 0
    ELSE 10 * digits_value(SubSeq(ds, 1, Len(ds) - 1)) + DigitValue(ds[Len(ds)])

RECURSIVE strip_zeros(_)
strip_zeros(ds) ==
    IF ds # <<>> /\ ds[Len(ds)] = "0"
    THEN strip_zeros(SubSeq(ds, 1, Len(ds) - 1))
    ELSE ds

(* NUMBER_RE: an optional minus, then 0 or a digit string not starting     *)
(* with 0, then optionally a point and one or more digits.                 *)
parse_number(s, i) ==
    LET neg == At(s, i) = "-"
        j == IF neg THEN i + 1 ELSE i
        e1 == IF At(s, j) = "0" THEN j + 1 ELSE digits_end(s, j)
        e2 == IF At(s, e1) = "." /\ digits_end(s, e1 + 1) > e1 + 1
              THEN digits_end(s, e1 + 1)
              ELSE e1
        frac == IF e2 > e1 THEN strip_zeros(SubSeq(s, e1 + 1, e2 - 1)) ELSE <<>>
        mant == digits_value(SubSeq(s, j, e1 - 1) \o frac)
    IN  IF e1 = j THEN Fail
        ELSE Ok(JNumber(IF neg THEN 0 - mant ELSE mant, Len(frac)), e2)

LitNull == <<"n", "u", "l", "l">>
LitTrue == <<"t", "r", "u", "e">>
LitFalse == <<"f", "a", "l", "s", "e">>
LitNaN == <<"N", "a", "N">>
LitInfinity == <<"I", "n", "f", "i", "n", "i", "t", "y">>
LitNegInfinity == <<"-">> \o LitInfinity

RECURSIVE parse_value(_, _, _)
RECURSIVE parse_members(_, _, _, _)
RECURSIVE parse_items(_, _, _, _)

parse_members(s, j, acc, strict) ==
    IF At(s, j) # "\"" THEN Fail
    ELSE LET e == string_end(s, j + 1)
         IN  IF e = 0 THEN Fail
             ELSE LET key == SubSeq(s, j + 1, e - 1)
                      c == skip_ws(s, e + 1)
                  IN  IF At(s, c) # ":" THEN Fail
                      ELSE LET v == parse_value(s, skip_ws(s, c + 1), strict)
                           IN  IF ~v.ok THEN Fail
                               ELSE LET acc2 == {p \in acc : p[1] # key}
                                                \cup {<<key, v.val>>}
                                        d == skip_ws(s, v.next)
                                    IN  IF At(s, d) = "}"
                                        THEN Ok(JObject(acc2), d + 1)
                                        ELSE IF At(s, d) = ","
                                        THEN parse_members(s, skip_ws(s, d + 1),
                                                           acc2, strict)
                                        ELSE Fail

parse_items(s, j, acc, strict) ==
    LET v == parse_value(s, j, strict)
    IN  IF ~v.ok THEN Fail
        ELSE LET acc2 == Append(acc, v.val)
                 d == skip_ws(s, v.next)
             IN  IF At(s, d) = "]" THEN Ok(JArray(acc2), d + 1)
                 ELSE IF At(s, d) = ","
                 THEN parse_items(s, skip_ws(s, d + 1), acc2, strict)
                 ELSE Fail

parse_value(s, i, strict) ==
    LET c == At(s, i)
    IN  IF c = "\""
        THEN LET e == string_end(s, i + 1)
             IN  IF e = 0 THEN Fail ELSE Ok(JString(SubSeq(s, i + 1, e - 1)), e + 1)
        ELSE IF c = "{"
        THEN LET j == skip_ws(s, i + 1)
             IN  IF At(s, j) = "}" THEN Ok(JObject({}), j + 1)
                 ELSE parse_members(s, j, {}, strict)
        ELSE IF c = "["
        THEN LET j == skip_ws(s, i + 1)
             IN  IF At(s, j) = "]" THEN Ok(JArray(<<>>), j + 1)
                 ELSE parse_items(s, j, <<>>, strict)
        ELSE IF StartsWithAt(s, i, LitNull) THEN Ok(JLiteral("null"), i + 4)
        ELSE IF StartsWithAt(s, i, LitTrue) THEN Ok(JLiteral("true"), i + 4)
        ELSE IF StartsWithAt(s, i, LitFalse) THEN Ok(JLiteral("false"), i + 5)
        ELSE IF parse_number(s, i).ok THEN parse_number(s, i)
        ELSE IF ~strict /\ StartsWithAt(s, i, LitNaN)
        THEN Ok(JLiteral("nan"), i + 3)
        ELSE IF ~strict /\ StartsWithAt(s, i, LitInfinity)
        THEN Ok(JLiteral("inf"), i + 8)
        ELSE IF ~strict /\ StartsWithAt(s, i, LitNegInfinity)
        THEN Ok(JLiteral("-inf"), i + 9)
        ELSE Fail

(* JSONDecoder.decode: one value between optional whitespace, nothing else. *)
decode(s, strict) ==
    LET v == parse_value(s, skip_ws(s, 1), strict)
    IN  IF v.ok /\ skip_ws(s, v.next) = Len(s) + 1 THEN v ELSE Fail

json_loads(s) == decode(s, FALSE)

----------------------------------------------------------------------------
(* ClaudeClient._parse_json_response (OpenAIClient and GeminiClient        *)
(* delegate to it).  The result is [st, value, error, msg, cause_doc,      *)
(* logged]: st = "returned" with the decoded value, or "raised" with the   *)
(* ValueError; msg is the fixed head of its message (the rest is the       *)
(* decoder's message and position), cause_doc the text held by the         *)
(* JSONDecodeError it is raised from (__cause__.doc), logged the text      *)
(* written by logger.error.                                                *)
(***************************************************************************)

NoParse == [st |-> "none", value |-> JNull, error |-> "", msg |-> "",
            cause_doc |-> <<>>, logged |-> <<>>]

unfence_no_bare(text) ==
    IF startswith(text, FenceJson)
    THEN LET t1 == drop_first(text, 7)
             t2 == IF endswith(t1, FenceBare) THEN drop_last(t1, 3) ELSE t1
         IN  strip(t2)
    ELSE text

unfence(text) ==
    IF startswith(text, FenceJson)
    THEN LET t1 == drop_first(text, 7)
             t2 == IF endswith(t1, FenceBare) THEN drop_last(t1, 3) ELSE t1
         IN  strip(t2)
    ELSE IF startswith(text, FenceBare)
    THEN LET t1 == drop_first(text, 3)
             t2 == IF endswith(t1, FenceBare) THEN drop_last(t1, 3) ELSE t1
         IN  strip(t2)
    ELSE text

json_result(text) ==
    LET result == json_loads(text)
    IN  IF result.ok
        THEN [NoParse EXCEPT !.st = "returned", !.value = result.val]
        ELSE [NoParse EXCEPT !.st = "raised", !.error = "ValueError",
                             !.msg = "Invalid JSON response: ",
                             !.cause_doc = text, !.logged = text]

parse_json_response(response_text_arg) ==
    json_result(unfence(strip(response_text_arg)))

----------------------------------------------------------------------------
(* The reply texts tried: a payload, optionally inside a fence, between    *)
(* whitespace, with or without prose before and after.                     *)

TextEmptyObject ==
    <<"{", "}">>

TextSuggestion ==
    <<"{", "\"", "f", "\"", ":", "\"", "a", ".", "p", "d", "f", "\"", ",",
      "\"", "c", "\"", ":", "0", ".", "9", "}">>

TextSpacedObject ==
    <<"{", "\n", " ", "\"", "f", "\"", " ", ":", " ", "\"", "x", " ", "y",
      "\"", ",", "\n", " ", "\"", "c", "\"", " ", ":", " ", "1", "\n", "}">>

TextNestedObject ==
    <<"{", "\"", "d", "\"", ":", "{", "\"", "k", "\"", ":", "[", "1", ",",
      "-", "2", ",", "t", "r", "u", "e", ",", "n", "u", "l", "l", "]", "}",
      "}">>

TextFenceInString ==
    <<"{", "\"", "r", "\"", ":", "\"", Backtick, Backtick, Backtick, "\"", "}">>

TextDuplicateKey ==
    <<"{", "\"", "c", "\"", ":", "1", ",", "\"", "c", "\"", ":", "2", "}">>

TextProse ==
    <<"T", "h", "i", "s", " ", "i", "s", " ", "n", "o", "t", " ", "J", "S",
      "O", "N">>

TextTruncated ==
    <<"{", "\"", "c", "\"", ":", "1">>

TextTrailingComma ==
    <<"{", "\"", "c", "\"", ":", "1", ",", "}">>

TextSingleQuotes ==
    <<"{", "'", "c", "'", ":", "1", "}">>

TextLeadingZero ==
    <<"{", "\"", "c", "\"", ":", "0", "1", "}">>

TextNaNConfidence ==
    <<"{", "\"", "c", "\"", ":", "N", "a", "N", "}">>

TextInfinity ==
    <<"{", "\"", "c", "\"", ":", "-", "I", "n", "f", "i", "n", "i", "t",
      "y", "}">>

TextArray ==
    <<"[", "1", "]">>

TextNumber ==
    <<"3">>

TextEmpty ==
    <<>>

Payloads ==
    {TextEmptyObject, TextSuggestion, TextSpacedObject, TextNestedObject,
     TextFenceInString, TextDuplicateKey, TextProse, TextTruncated,
     TextTrailingComma, TextSingleQuotes, TextLeadingZero, TextNaNConfidence,
     TextInfinity, TextArray, TextNumber, TextEmpty}

OuterWhitespace == {<<>>, <<" ", "\n">>, <<"\f">>}
InnerWhitespace == {<<>>, <<"\n">>}
ProseBefore == {<<>>, <<"H", "i", ":", " ">>}
ProseAfter == {<<>>, <<" ", "o", "k">>}

Wraps ==
    [before : ProseBefore, lead : OuterWhitespace,
     fence : {"none", "json", "bare"}, inner1 : InnerWhitespace,
     inner2 : InnerWhitespace, close : BOOLEAN, trail : OuterWhitespace,
     after : ProseAfter]

NoWrap == [before |-> <<>>, lead |-> <<>>, fence |-> "none", inner1 |-> <<>>,
           inner2 |-> <<>>, close |-> FALSE, trail |-> <<>>, after |-> <<>>]

Compose(wr, text) ==
    wr.before \o wr.lead
    \o (IF wr.fence = "json" THEN FenceJson
        ELSE IF wr.fence = "bare" THEN FenceBare ELSE <<>>)
    \o wr.inner1 \o text \o wr.inner2
    \o (IF wr.close THEN FenceBare ELSE <<>>)
    \o wr.trail \o wr.after

----------------------------------------------------------------------------
(* docfiler/config.py: the environment, Config, active_api_key,            *)
(* active_model, load_config.                                              *)
(* An optional text (what os.getenv gives, a str | None field) is          *)
(* [set, text]; set = FALSE is None.  The environment is a record of       *)
(* optional texts, one per variable.                                       *)
(***************************************************************************)

None == [set |-> FALSE, text |-> <<>>]
Str(t) == [set |-> TRUE, text |-> t]

getenv(env, name, default) == IF env[name].set THEN env[name].text ELSE default

upper_char(c) ==
    IF \E i \in 1..Len(LowerCase) : LowerCase[i] = c
    THEN UpperCase[CHOOSE i \in 1..Len(LowerCase) : LowerCase[i] = c]
    ELSE c

upper(s) == [i \in 1..Len(s) |-> upper_char(s[i])]

TxtClaude ==
    <<"c", "l", "a", "u", "d", "e">>

TxtOpenai ==
    <<"o", "p", "e", "n", "a", "i">>

TxtGemini ==
    <<"g", "e", "m", "i", "n", "i">>

DefaultClaudeModel ==
    <<"c", "l", "a", "u", "d", "e", "-", "3", "-", "5", "-", "s", "o", "n",
      "n", "e", "t", "-", "2", "0", "2", "4", "1", "0", "2", "2">>

DefaultOpenaiModel ==
    <<"g", "p", "t", "-", "4", "o">>

DefaultGeminiModel ==
    <<"g", "e", "m", "i", "n", "i", "-", "2", ".", "0", "-", "f", "l", "a",
      "s", "h", "-", "e", "x", "p">>

DefaultMaxTokensText ==
    <<"1", "0", "2", "4">>

DefaultImageDpiText ==
    <<"3", "0", "0">>

DefaultMaxImageDimensionText ==
    <<"2", "0", "4", "8">>

DefaultPdfPagesText ==
    <<"3">>

LevelDebug ==
    <<"D", "E", "B", "U", "G">>

LevelInfo ==
    <<"I", "N", "F", "O">>

LevelWarning ==
    <<"W", "A", "R", "N", "I", "N", "G">>

LevelError ==
    <<"E", "R", "R", "O", "R">>

LevelCritical ==
    <<"C", "R", "I", "T", "I", "C", "A", "L">>

Providers == {TxtClaude, TxtOpenai, TxtGemini}
valid_log_levels == {LevelDebug, LevelInfo, LevelWarning, LevelError, LevelCritical}

(* int(text): optional whitespace around an optional sign and decimal      *)
(* digits, single underscores allowed between digits; ValueError           *)
(* otherwise.                                                              *)
IsIntDigits(ds) ==
    /\ ds # <<>>
    /\ \A i \in 1..Len(ds) :
          \/ IsDigit(ds[i])
          \/ /\ ds[i] = "_"
             /\ i > 1 /\ i < Len(ds)
             /\ IsDigit(ds[i - 1]) /\ IsDigit(ds[i + 1])

py_int(text) ==
    LET t == strip(text)
        signed == t # <<>> /\ t[1] \in {"+", "-"}
        ds == IF signed THEN Tail(t) ELSE t
        mag == digits_value(SelectSeq(ds, IsDigit))
    IN  IF IsIntDigits(ds)
        THEN [ok |-> TRUE, val |-> IF signed /\ t[1] = "-" THEN 0 - mag ELSE mag]
        ELSE [ok |-> FALSE, val |-> 0]

positive_int_or_zero(env, name, default) ==
    LET parsed_int == py_int(getenv(env, name, default))
    IN  [ok |-> parsed_int.ok /\ parsed_int.val >= 0, val |-> parsed_int.val]

(* One "try: x = int(os.getenv(NAME, default)); if x <= 0: raise" block. *)
positive_int(env, name, default) ==
    LET parsed_int == py_int(getenv(env, name, default))
    IN  [ok |-> parsed_int.ok /\ parsed_int.val > 0, val |-> parsed_int.val]

NoConfig ==
    [vlm_provider |-> <<>>, anthropic_api_key |-> None, openai_api_key |-> None,
     gemini_api_key |-> None, vlm_max_tokens |-> 0, claude_model |-> <<>>,
     openai_model |-> <<>>, gemini_model |-> <<>>, image_dpi |-> 0,
     max_image_dimension |-> 0, pdf_pages_to_extract |-> 0,
     source_dir |-> None, default_dest_base |-> None, log_level |-> <<>>]

(* Config.active_api_key: [st, key], st = "raised" is the ValueError       *)
(* "API key not configured for provider".                                  *)
active_api_key_any(config) ==
    LET keys == {config.anthropic_api_key, config.openai_api_key,
                 config.gemini_api_key}
        found == {k \in keys : k.set /\ k.text # <<>>}
    IN  IF found = {}
        THEN [st |-> "raised", key |-> <<>>]
        ELSE [st |-> "returned", key |-> (CHOOSE k \in found : TRUE).text]

active_api_key(config) ==
    LET key == IF config.vlm_provider = TxtClaude THEN config.anthropic_api_key
               ELSE IF config.vlm_provider = TxtOpenai THEN config.openai_api_key
               ELSE IF config.vlm_provider = TxtGemini THEN config.gemini_api_key
               ELSE None
    IN  IF ~key.set \/ key.text = <<>>
        THEN [st |-> "raised", key |-> <<>>]
        ELSE [st |-> "returned", key |-> key.text]

(* Config.active_model: [st, model], st = "raised" is the KeyError of      *)
(* model_map[self.vlm_provider].                                           *)
active_model(config) ==
    IF config.vlm_provider = TxtClaude
    THEN [st |-> "returned", model |-> config.claude_model]
    ELSE IF config.vlm_provider = TxtOpenai
    THEN [st |-> "returned", model |-> config.openai_model]
    ELSE IF config.vlm_provider = TxtGemini
    THEN [st |-> "returned", model |-> config.gemini_model]
    ELSE [st |-> "raised", model |-> <<>>]

(* load_config: [st, error, msg, config]; msg is the head of the           *)
(* ValueError's message.                                                   *)
ConfigRaised(msg) ==
    [st |-> "raised", error |-> "ValueError", msg |-> msg, config |-> NoConfig]

NoLoad == [st |-> "none", error |-> "", msg |-> "", config |-> NoConfig]

env_config(env) ==
    [vlm_provider |-> lower(getenv(env, "VLM_PROVIDER", TxtClaude)),
     anthropic_api_key |-> env["ANTHROPIC_API_KEY"],
     openai_api_key |-> env["OPENAI_API_KEY"],
     gemini_api_key |-> env["GEMINI_API_KEY"],
     vlm_max_tokens |-> py_int(getenv(env, "VLM_MAX_TOKENS", DefaultMaxTokensText)).val,
     claude_model |-> getenv(env, "CLAUDE_MODEL", DefaultClaudeModel),
     openai_model |-> getenv(env, "OPENAI_MODEL", DefaultOpenaiModel),
     gemini_model |-> getenv(env, "GEMINI_MODEL", DefaultGeminiModel),
     image_dpi |-> py_int(getenv(env, "IMAGE_DPI", DefaultImageDpiText)).val,
     max_image_dimension |->
         py_int(getenv(env, "MAX_IMAGE_DIMENSION", DefaultMaxImageDimensionText)).val,
     pdf_pages_to_extract |->
         py_int(getenv(env, "PDF_PAGES_TO_EXTRACT", DefaultPdfPagesText)).val,
     source_dir |-> None,
     default_dest_base |-> None,
     log_level |-> upper(getenv(env, "LOG_LEVEL", LevelInfo))]

load_config(env) ==
    LET config == env_config(env)
    IN  IF config.vlm_provider \notin Providers
        THEN ConfigRaised("Invalid VLM_PROVIDER: ")
        ELSE IF ~positive_int(env, "VLM_MAX_TOKENS", DefaultMaxTokensText).ok
        THEN ConfigRaised("Invalid VLM_MAX_TOKENS: ")
        ELSE IF ~positive_int(env, "IMAGE_DPI", DefaultImageDpiText).ok
        THEN ConfigRaised("Invalid IMAGE_DPI: ")
        ELSE IF ~positive_int(env, "MAX_IMAGE_DIMENSION",
                              DefaultMaxImageDimensionText).ok
        THEN ConfigRaised("Invalid MAX_IMAGE_DIMENSION: ")
        ELSE IF ~positive_int(env, "PDF_PAGES_TO_EXTRACT", DefaultPdfPagesText).ok
        THEN ConfigRaised("Invalid PDF_PAGES_TO_EXTRACT: ")
        ELSE IF config.log_level \notin valid_log_levels
        THEN ConfigRaised("Invalid LOG_LEVEL: ")
        ELSE IF active_api_key(config).st = "raised"
        THEN ConfigRaised("API key not configured for provider: ")
        ELSE [st |-> "returned", error |-> "", msg |-> "", config |-> config]

----------------------------------------------------------------------------
(* docfiler/api_clients.py: create_client and the three adapters.          *)
(* Image data is a sequence of bytes (0..255).                             *)
(***************************************************************************)

B64Alphabet ==
    <<"A", "B", "C", "D", "E", "F", "G", "H", "I", "J", "K", "L", "M",
      "N", "O", "P", "Q", "R", "S", "T", "U", "V", "W", "X", "Y", "Z",
      "a", "b", "c", "d", "e", "f", "g", "h", "i", "j", "k", "l", "m",
      "n", "o", "p", "q", "r", "s", "t", "u", "v", "w", "x", "y", "z",
      "0", "1", "2", "3", "4", "5", "6", "7", "8", "9", "+", "/">>

(* base64.standard_b64encode(img_bytes).decode("utf-8"): three bytes give  *)
(* four characters of the alphabet, a tail of one or two bytes is padded   *)
(* with "=".                                                               *)
b64_chars(n, k) ==
    LET c1 == B64Alphabet[(n \div 262144) + 1]
        c2 == B64Alphabet[((n \div 4096) % 64) + 1]
        c3 == B64Alphabet[((n \div 64) % 64) + 1]
        c4 == B64Alphabet[(n % 64) + 1]
    IN  IF k = 1 THEN <<c1, c2, "=", "=">>
        ELSE IF k = 2 THEN <<c1, c2, c3, "=">>
        ELSE <<c1, c2, c3, c4>>

RECURSIVE standard_b64encode(_)
standard_b64encode(bs) ==
    IF bs = <<>> THEN <<>>
    ELSE IF Len(bs) = 1 THEN b64_chars(bs[1] * 65536, 1)
    ELSE IF Len(bs) = 2 THEN b64_chars(bs[1] * 65536 + bs[2] * 256, 2)
    ELSE b64_chars(bs[1] * 65536 + bs[2] * 256 + bs[3], 3)
         \o standard_b64encode(SubSeq(bs, 4, Len(bs)))

DataUrlPrefix ==
    <<"d", "a", "t", "a", ":", "i", "m", "a", "g", "e", "/", "p", "n", "g",
      ";", "b", "a", "s", "e", "6", "4", ",">>

PrefixO1 ==
    <<"o", "1", "-">>

PrefixGpt5 ==
    <<"g", "p", "t", "-", "5">>


(* The factory.  A client is [class, api_key, model]; the result is        *)
(* [st, error, msg, client, constructed], constructed being the SDK        *)
(* clients built on the way.                                               *)
NoClient == [class |-> "", api_key |-> <<>>, model |-> <<>>]

client_class(api_key, model, class) ==
    [st |-> "returned", error |-> "", msg |-> "",
     client |-> [class |-> class, api_key |-> api_key, model |-> model],
     constructed |-> <<class>>]

create_client_exact(provider, api_key, model) ==
    IF provider = TxtClaude THEN client_class(api_key, model, "ClaudeClient")
    ELSE IF provider = TxtOpenai THEN client_class(api_key, model, "OpenAIClient")
    ELSE IF provider = TxtGemini THEN client_class(api_key, model, "GeminiClient")
    ELSE [st |-> "raised", error |-> "ValueError", msg |-> "Unsupported provider: ",
          client |-> NoClient, constructed |-> <<>>]

create_client(provider, api_key, model) ==
    LET name == lower(provider)
    IN  IF name = TxtClaude THEN client_class(api_key, model, "ClaudeClient")
        ELSE IF name = TxtOpenai THEN client_class(api_key, model, "OpenAIClient")
        ELSE IF name = TxtGemini THEN client_class(api_key, model, "GeminiClient")
        ELSE [st |-> "raised", error |-> "ValueError",
              msg |-> "Unsupported provider: ",
              client |-> NoClient, constructed |-> <<>>]

(* The parts of the one user message, per adapter. *)
text_part(prompt) == [type |-> "text", text |-> prompt]

claude_image_part(img_bytes) ==
    [type |-> "image",
     source |-> [type |-> "base64", media_type |-> "image/png",
                 data |-> standard_b64encode(img_bytes)]]

openai_image_part(img_bytes) ==
    [type |-> "image_url",
     image_url |-> [url |-> DataUrlPrefix \o standard_b64encode(img_bytes)]]

gemini_image_part(img_bytes) ==
    [type |-> "inline_data",
     inline_data |-> [data |-> img_bytes, mime_type |-> "image/png"]]

image_part(class, img_bytes) ==
    IF class = "ClaudeClient" THEN claude_image_part(img_bytes)
    ELSE IF class = "OpenAIClient" THEN openai_image_part(img_bytes)
    ELSE gemini_image_part(img_bytes)

build_content_prompt_first(class, prompt, images) ==
    <<text_part(prompt)>>
    \o [i \in 1..Len(images) |-> image_part(class, images[i])]

build_content(class, prompt, images) ==
    [i \in 1..Len(images) |-> image_part(class, images[i])]
    \o <<text_part(prompt)>>

(* The token-budget parameter of a chat-completions request. *)
token_parameter_o1_only(model) ==
    IF startswith(model, PrefixO1)
    THEN "max_completion_tokens"
    ELSE "max_tokens"

token_parameter(model) ==
    IF startswith(model, PrefixO1) \/ startswith(model, PrefixGpt5)
    THEN "max_completion_tokens"
    ELSE "max_tokens"

(* The request an adapter sends: the keyword arguments of                  *)
(* messages.create, chat.completions.create, models.generate_content.      *)
build_request(client, prompt, images, max_tokens) ==
    LET content == build_content(client.class, prompt, images)
    IN  IF client.class = "ClaudeClient"
        THEN ("model" :> client.model) @@ ("max_tokens" :> max_tokens)
             @@ ("messages" :> <<[role |-> "user", content |-> content]>>)
        ELSE IF client.class = "OpenAIClient"
        THEN ("model" :> client.model)
             @@ ("messages" :> <<[role |-> "user", content |-> content]>>)
             @@ (token_parameter(client.model) :> max_tokens)
        ELSE ("model" :> client.model) @@ ("contents" :> content)
             @@ ("config" :> [max_output_tokens |-> max_tokens])

(* What the backend does with a request: it replies with a text, or the    *)
(* SDK call raises.  An exception is [class, msg, context]; context is     *)
(* the class of the exception being handled when it was raised.            *)
NoError == [class |-> "", msg |-> "", context |-> ""]
Error(class, msg) == [class |-> class, msg |-> msg, context |-> ""]

BackendReply(text) == [kind |-> "reply", text |-> text, error |-> NoError]
BackendError(class, msg) ==
    [kind |-> "error", text |-> <<>>, error |-> Error(class, msg)]

(* VLMClient.analyze_document of the three adapters after the request is   *)
(* built: the SDK call, the reply's text, _parse_json_response.            *)
(* [st, value, error].                                                     *)
NoAnswer == [st |-> "none", value |-> JNull, error |-> NoError]

client_analyze_document(reply) ==
    LET result == parse_json_response(reply.text)
    IN  IF reply.kind = "error"
        THEN [st |-> "raised", value |-> JNull, error |-> reply.error]
        ELSE IF result.st = "raised"
        THEN [st |-> "raised", value |-> JNull,
              error |-> Error(result.error, result.msg)]
        ELSE [st |-> "returned", value |-> result.value, error |-> NoError]

(* cli/context_generator.py _generate_with_provider: the request of the    *)
(* text-only call, with twice the configured budget.                       *)
generate_request(config, prompt) ==
    LET model == active_model(config).model
        max_tokens == config.vlm_max_tokens * 2
    IN  IF config.vlm_provider = TxtClaude
        THEN ("model" :> model) @@ ("max_tokens" :> max_tokens)
             @@ ("messages" :> <<[role |-> "user", content |-> prompt]>>)
        ELSE IF config.vlm_provider = TxtOpenai
        THEN ("model" :> model)
             @@ ("messages" :> <<[role |-> "user", content |-> prompt]>>)
             @@ (token_parameter(model) :> max_tokens)
        ELSE IF config.vlm_provider = TxtGemini
        THEN ("model" :> model) @@ ("contents" :> prompt)
             @@ ("config" :> [max_output_tokens |-> max_tokens])
        ELSE ("raised" :> "ValueError")

----------------------------------------------------------------------------
(* docfiler/vlm_service.py: FilingSuggestion, VLMService.                  *)
(***************************************************************************)

KeyFilename ==
    <<"f", "i", "l", "e", "n", "a", "m", "e">>

KeyDestination ==
    <<"d", "e", "s", "t", "i", "n", "a", "t", "i", "o", "n">>

KeyConfidence ==
    <<"c", "o", "n", "f", "i", "d", "e", "n", "c", "e">>

KeyReasoning ==
    <<"r", "e", "a", "s", "o", "n", "i", "n", "g">>

DefaultFilename ==
    <<"u", "n", "t", "i", "t", "l", "e", "d", ".", "p", "d", "f">>

DefaultDestination ==
    <<"u", "n", "s", "o", "r", "t", "e", "d">>

DefaultReasoning ==
    <<"N", "o", " ", "r", "e", "a", "s", "o", "n", "i", "n", "g", " ", "p",
      "r", "o", "v", "i", "d", "e", "d">>

PlaceholderContext ==
    <<"{", "c", "o", "n", "t", "e", "x", "t", "}">>

PlaceholderExtra ==
    <<"{", "e", "x", "t", "r", "a", "_", "i", "n", "s", "t", "r", "u", "c",
      "t", "i", "o", "n", "s", "}">>

DefaultPromptTemplate ==
    <<"C", "o", "n", "t", "e", "x", "t", ":", " ", "{", "c", "o", "n", "t",
      "e", "x", "t", "}", "\n", "\n", "{", "e", "x", "t", "r", "a", "_",
      "i", "n", "s", "t", "r", "u", "c", "t", "i", "o", "n", "s", "}",
      "\n", "\n", "R", "e", "s", "p", "o", "n", "d", " ", "w", "i", "t",
      "h", " ", "J", "S", "O", "N">>

DefaultContextText ==
    <<"G", "e", "n", "e", "r", "a", "l", " ", "f", "i", "l", "i", "n",
      "g">>

ContextBills ==
    <<"B", "i", "l", "l", "s", " ", "g", "o", " ", "t", "o", " ", "F", "i",
      "n", "a", "n", "c", "e", "s">>

SafePunctuation ==
    <<".", "_", "-", " ">>

(* str.replace(old, new): every non-overlapping occurrence, left to right. *)
RECURSIVE replace(_, _, _)
replace(s, old, new) ==
    IF Len(s) < Len(old) THEN s
    ELSE IF startswith(s, old)
    THEN new \o replace(drop_first(s, Len(old)), old, new)
    ELSE <<s[1]>> \o replace(Tail(s), old, new)

(* VLMService._build_prompt *)
build_prompt(prompt_template, context, extra_instructions) ==
    LET prompt == replace(prompt_template, PlaceholderContext, context)
    IN  replace(prompt, PlaceholderExtra, extra_instructions)

(* VLMService.__init__: [st, error, config, context, client,               *)
(* max_dimension, prompt_template, extra_instructions].  The arguments of  *)
(* create_client are evaluated in order, so a missing key raises before    *)
(* the model is looked up.                                                 *)
NoService ==
    [st |-> "none", error |-> NoError, config |-> NoConfig, context |-> <<>>,
     client |-> NoClient, max_dimension |-> 0, prompt_template |-> <<>>,
     extra_instructions |-> <<>>]

VLMService(config, context) ==
    LET key == active_api_key(config)
        model == active_model(config)
        built == create_client(config.vlm_provider, key.key, model.model)
    IN  IF key.st = "raised"
        THEN [NoService EXCEPT !.st = "raised",
                !.error = Error("ValueError",
                                "API key not configured for provider: ")]
        ELSE IF model.st = "raised"
        THEN [NoService EXCEPT !.st = "raised", !.error = Error("KeyError", "")]
        ELSE IF built.st = "raised"
        THEN [NoService EXCEPT !.st = "raised",
                !.error = Error(built.error, built.msg)]
        ELSE [st |-> "ready", error |-> NoError, config |-> config,
              context |-> IF context.set /\ context.text # <<>>
                          THEN context.text ELSE DefaultContextText,
              client |-> built.client,
              max_dimension |-> config.max_image_dimension,
              prompt_template |-> DefaultPromptTemplate,
              extra_instructions |-> <<>>]

(* response.get(key, default) on a decoded value: [st, value]; st =        *)
(* "raised" is the AttributeError of a value that is not a dict.           *)
HasKey(raw, key) == \E p \in raw.m : p[1] = key

dict_get_falsy_default(raw, key, default) ==
    IF HasKey(raw, key)
       /\ (CHOOSE p \in raw.m : p[1] = key)[2].t \notin {"null", "false"}
    THEN (CHOOSE p \in raw.m : p[1] = key)[2]
    ELSE default

dict_get(raw, key, default) ==
    IF HasKey(raw, key)
    THEN (CHOOSE p \in raw.m : p[1] = key)[2]
    ELSE default

NoSuggestion == [filename |-> JNull, destination |-> JNull,
                 confidence |-> JNull, reasoning |-> JNull]

(* The FilingSuggestion built from the adapter's result (lines 122-128). *)
FilingSuggestion(response) ==
    [filename |-> dict_get(response, KeyFilename, JString(DefaultFilename)),
     destination |-> dict_get(response, KeyDestination,
                              JString(DefaultDestination)),
     confidence |-> dict_get(response, KeyConfidence, JNumber(0, 0)),
     reasoning |-> dict_get(response, KeyReasoning, JString(DefaultReasoning))]

(* The adapter call as the orchestrator makes it. *)
call_args_first_image(prompt, images, max_tokens) ==
    [prompt |-> prompt, images |-> SubSeq(images, 1, 1),
     max_tokens |-> max_tokens]

call_args(prompt, images, max_tokens) ==
    [prompt |-> prompt, images |-> images, max_tokens |-> max_tokens]

(* The prompt cache file under logs/: its name is made of the time to the  *)
(* second and the characters of the file's name that are alphanumeric or   *)
(* one of ". _ -" and the space.                                           *)
IsAlnum(c) ==
    \/ IsDigit(c)
    \/ \E i \in 1..Len(LowerCase) : c = LowerCase[i] \/ c = UpperCase[i]

IsSafeChar(c) == IsAlnum(c) \/ \E i \in 1..Len(SafePunctuation) : c = SafePunctuation[i]

safe_filename(name) == SelectSeq(name, IsSafeChar)

cache_file_name(timestamp, name) ==
    [timestamp |-> timestamp, safe_filename |-> safe_filename(name)]

----------------------------------------------------------------------------
(* The inputs tried by the configuration, factory, adapter and service     *)
(* specifications.                                                         *)

TxtLlama ==
    <<"l", "l", "a", "m", "a">>

TxtOpenAIMixed ==
    <<"O", "p", "e", "n", "A", "I">>

TxtClaudeUpper ==
    <<"C", "L", "A", "U", "D", "E">>

TxtGeminiMixed ==
    <<"G", "e", "m", "i", "n", "i">>

TxtClaudeSpace ==
    <<" ", "c", "l", "a", "u", "d", "e">>

TxtClaude2 ==
    <<"c", "l", "a", "u", "d", "e", "2">>

TxtAnthropic ==
    <<"a", "n", "t", "h", "r", "o", "p", "i", "c">>

TxtOpen ==
    <<"o", "p", "e", "n">>

TxtGpt ==
    <<"g", "p", "t">>

ApiKey ==
    <<"s", "k", "-", "1">>

ModelO1Mini ==
    <<"o", "1", "-", "m", "i", "n", "i">>

ModelO1 ==
    <<"o", "1">>

ModelGpt5 ==
    <<"g", "p", "t", "-", "5">>

ModelGpt5Mini ==
    <<"g", "p", "t", "-", "5", "-", "m", "i", "n", "i">>

ModelO1Upper ==
    <<"O", "1", "-", "p", "r", "e", "v", "i", "e", "w">>

ModelGpt45 ==
    <<"g", "p", "t", "-", "4", ".", "5">>

ModelXo1 ==
    <<"x", "o", "1", "-", "a">>

PromptHi ==
    <<"H", "i">>

Text16 ==
    <<"1", "6">>

Text0 ==
    <<"0">>

TextFloat ==
    <<"3", ".", "5">>

TextPadded7 ==
    <<" ", "7", " ">>

Text4 ==
    <<"4">>

TextAbc ==
    <<"a", "b", "c">>

TextMinus5 ==
    <<"-", "5">>

TextUnderscore10 ==
    <<"1", "_", "0">>

TextDebugLower ==
    <<"d", "e", "b", "u", "g">>

TextTrace ==
    <<"T", "R", "A", "C", "E">>

ReplyFull ==
    <<"{", "\"", "f", "i", "l", "e", "n", "a", "m", "e", "\"", ":", "\"",
      "a", ".", "p", "d", "f", "\"", ",", "\"", "d", "e", "s", "t", "i",
      "n", "a", "t", "i", "o", "n", "\"", ":", "\"", "x", "/", "y", "\"",
      ",", "\"", "c", "o", "n", "f", "i", "d", "e", "n", "c", "e", "\"",
      ":", "0", ".", "9", ",", "\"", "r", "e", "a", "s", "o", "n", "i",
      "n", "g", "\"", ":", "\"", "r", "\"", "}">>

ReplyStringConfidence ==
    <<"{", "\"", "c", "o", "n", "f", "i", "d", "e", "n", "c", "e", "\"",
      ":", "\"", "h", "i", "g", "h", "\"", ",", "\"", "e", "x", "t", "r",
      "a", "\"", ":", "1", "}">>

ReplyNullFilename ==
    <<"{", "\"", "f", "i", "l", "e", "n", "a", "m", "e", "\"", ":", "n",
      "u", "l", "l", ",", "\"", "c", "o", "n", "f", "i", "d", "e", "n",
      "c", "e", "\"", ":", "7", "}">>

ReplyNull ==
    <<"n", "u", "l", "l">>

ReplyString ==
    <<"\"", "a", ".", "p", "d", "f", "\"">>

NameScan ==
    <<"s", "c", "a", "n", ".", "p", "d", "f">>

NameScanCopy ==
    <<"s", "c", "a", "n", "(", "1", ")", ".", "p", "d", "f">>

NameScan1 ==
    <<"s", "c", "a", "n", "1", ".", "p", "d", "f">>

NoEnv ==
    [VLM_PROVIDER |-> None, ANTHROPIC_API_KEY |-> None, OPENAI_API_KEY |-> None,
     GEMINI_API_KEY |-> None, VLM_MAX_TOKENS |-> None, CLAUDE_MODEL |-> None,
     OPENAI_MODEL |-> None, GEMINI_MODEL |-> None, IMAGE_DPI |-> None,
     MAX_IMAGE_DIMENSION |-> None, PDF_PAGES_TO_EXTRACT |-> None,
     LOG_LEVEL |-> None]

KeyValues == {None, Str(<<>>), Str(ApiKey)}

EnvProviders == {None, Str(TxtClaude), Str(TxtOpenAIMixed), Str(TxtGemini),
                 Str(TxtLlama), Str(<<>>)}

Env(provider, k1, k2, k3, tokens, dpi, dim, pages, level) ==
    [NoEnv EXCEPT !.VLM_PROVIDER = provider, !.ANTHROPIC_API_KEY = k1,
                  !.OPENAI_API_KEY = k2, !.GEMINI_API_KEY = k3,
                  !.VLM_MAX_TOKENS = tokens, !.IMAGE_DPI = dpi,
                  !.MAX_IMAGE_DIMENSION = dim, !.PDF_PAGES_TO_EXTRACT = pages,
                  !.LOG_LEVEL = level]

Envs ==
    {Env(p, k1, k2, k3, t, dpi, dim, pg, lv) :
        p \in EnvProviders, k1 \in KeyValues, k2 \in KeyValues,
        k3 \in KeyValues,
        t \in {None, Str(Text16), Str(Text0), Str(TextFloat), Str(TextPadded7)},
        dpi \in {None, Str(TextAbc)},
        dim \in {None, Str(Text4), Str(<<>>)},
        pg \in {None, Str(TextMinus5), Str(TextUnderscore10)},
        lv \in {None, Str(TextDebugLower), Str(TextTrace), Str(<<>>)}}

ServiceEnvs ==
    {Env(p, k1, k2, k3, t, None, None, None, None) :
        p \in EnvProviders \ {Str(<<>>)}, k1 \in KeyValues, k2 \in KeyValues,
        k3 \in KeyValues, t \in {None, Str(Text16), Str(Text0)}}

(* create_client's arguments. *)
NoFactoryArgs == [provider |-> <<>>, api_key |-> <<>>, model |-> <<>>]
NoMade == [st |-> "none", error |-> "", msg |-> "", client |-> NoClient,
           constructed |-> <<>>]

FactoryProviders ==
    {TxtClaude, TxtOpenai, TxtGemini, TxtClaudeUpper, TxtOpenAIMixed,
     TxtGeminiMixed, TxtLlama, TxtClaudeSpace, TxtClaude2, TxtAnthropic,
     TxtOpen, TxtGpt, <<>>}

FactoryArgs ==
    [provider : FactoryProviders, api_key : {ApiKey, <<>>},
     model : {DefaultClaudeModel, DefaultOpenaiModel, ModelO1Mini}]

(* An adapter call's arguments. *)
MaxImages == 2

ByteStrings == {<<137>>, <<80, 78>>, <<71, 13, 10>>, <<137, 80, 78, 71>>}
ImageLists == UNION {[1..n -> ByteStrings] : n \in 0..MaxImages}

ModelIds == {DefaultOpenaiModel, ModelO1Mini, ModelO1, ModelGpt5, ModelGpt5Mini,
             ModelO1Upper, ModelGpt45, ModelXo1}

Clients == [class : {"ClaudeClient", "OpenAIClient", "GeminiClient"},
            api_key : {ApiKey}, model : ModelIds]

NoReq == [client |-> NoClient, prompt |-> <<>>, images |-> <<>>,
          max_tokens |-> 0]
NoRequest == ("none" :> TRUE)

Reqs == [client : Clients, prompt : {PromptHi, DefaultPromptTemplate},
         images : ImageLists, max_tokens : {16, 1024}]

AuthenticationError == BackendError("AuthenticationError", "401")
APIConnectionError == BackendError("APIConnectionError", "Connection error.")

AdapterReplies ==
    {BackendReply(TextSuggestion), BackendReply(TextProse), AuthenticationError}

(* The documents and backend behaviours one service call is tried with. *)
SfxPng == <<".", "p", "n", "g">>
SfxTxt == <<".", "t", "x", "t">>

ServiceDocuments ==
    {Document("missing", SfxPdf, <<>>, NoImage),
     Document("junk", SfxTxt, <<>>, NoImage),
     Document("pdf", SfxPdf, <<PgScanSmall, PgScanLarge>>, NoImage),
     Document("pdf", SfxPdf, <<PgText>>, NoImage),
     Document("pdf", SfxPdf, <<PgNoResources>>, NoImage),
     Document("raster", SfxPng, <<>>,
              [w |-> TestLongSide, h |-> TestShortSide, mode |-> "RGB"]),
     Document("raster", SfxPng, <<>>,
              [w |-> 1, h |-> TestLongSide, mode |-> "L"])}

ServiceReplies ==
    {BackendReply(ReplyFull),
     BackendReply(Compose([NoWrap EXCEPT !.fence = "json", !.inner1 = <<"\n">>,
                                         !.inner2 = <<"\n">>, !.close = TRUE],
                          ReplyFull)),
     BackendReply(TextEmptyObject),
     BackendReply(ReplyStringConfidence),
     BackendReply(ReplyNullFilename),
     BackendReply(TextArray),
     BackendReply(TextNumber),
     BackendReply(ReplyNull),
     BackendReply(ReplyString),
     BackendReply(TextProse),
     AuthenticationError,
     APIConnectionError}

ContextArgs == {None, Str(ContextBills)}

(* One analyze_document call: where it is (pc) and its locals. *)
NoVerdict == [st |-> "none", suggestion |-> NoSuggestion, error |-> NoError]

NoCall ==
    [pc |-> "idle", prompt |-> <<>>, calls |-> <<>>,
     reply |-> BackendReply(<<>>), answer |-> NoAnswer, pending |-> NoError,
     result |-> NoVerdict, log |-> <<>>]

Section(section, text, value, error) ==
    [section |-> section, text |-> text, value |-> value, error |-> error]

(* Concurrent calls: the paths they are given and the log files they can   *)
(* name.                                                                   *)
MaxClock == 2

WorkerPaths ==
    [dir : {"in", "archive"}, name : {NameScan, NameScanCopy, NameScan1}]

CacheNames ==
    {cache_file_name(t, path.name) : t \in 0..MaxClock, path \in WorkerPaths}

NoLogs == [f \in CacheNames |-> <<>>]

----------------------------------------------------------------------------
(* Specifications of the two pure functions. *)

IdlePages == num_pages = 1 /\ page_indices = <<>> /\ pages_pc = "idle"
IdleResize == img = [w |-> 1, h |-> 1, mode |-> "RGB"]
              /\ resized = NoResult /\ resized_again = NoResult
IdleDoc == doc = Document("missing", <<>>, <<>>, NoImage) /\ outcome = NoOutcome

pagesVars == <<num_pages, page_indices, pages_pc>>
resizeVars == <<img, resized, resized_again>>
docVars == <<doc, outcome>>
parseVars == <<payload, wrap, response_text, parsed, plain>>

IdleParse == /\ payload = <<>> /\ wrap = NoWrap /\ response_text = <<>>
             /\ parsed = NoParse /\ plain = NoParse

NoPromptArgs ==
    [prompt_template |-> <<>>, context |-> <<>>, extra_instructions |-> <<>>]
NoPrompt == [st |-> "none", text |-> <<>>]

promptVars == <<prompt_args, built_prompt>>
IdlePrompt == prompt_args = NoPromptArgs /\ built_prompt = NoPrompt

(* The main window's state before the window is constructed. *)
NoThread == [pc |-> "none", files |-> <<>>, idx |-> 0]
NoDialog == [kind |-> "none", selected |-> <<>>]
NoOp == [kind |-> "none", targets |-> {}, success_count |-> 0,
         error_count |-> 0, renamed |-> {}, refused |-> {}, filed |-> {}]
NoStarted == [actions |-> 0, batches |-> 0, finished |-> 0]

guiVars == <<disk, files, checked, suggestions, current_file_index,
             filename_edit, dest_edit, buttons, processing_thread,
             context_thread, events, dialog, app, emitted, started, typed,
             failed, last_op>>

IdleGui ==
    /\ disk = <<>> /\ files = <<>> /\ checked = <<>> /\ suggestions = <<>>
    /\ current_file_index = -1 /\ filename_edit = <<>> /\ dest_edit = <<>>
    /\ buttons = [process |-> FALSE, context |-> FALSE, window |-> FALSE]
    /\ processing_thread = NoThread /\ context_thread = "none"
    /\ events = <<>> /\ dialog = NoDialog /\ app = "none"
    /\ emitted = <<>> /\ started = NoStarted /\ typed = FALSE
    /\ failed = {} /\ last_op = NoOp

configVars == <<environ, loaded>>
serviceVars == <<service, svc>>
factoryVars == <<factory_args, made>>
requestVars == <<req, request, answer, gen_request>>
workerVars == <<workers, logs, clock>>
appVars == <<configVars, serviceVars, factoryVars, requestVars, workerVars,
            promptVars,
            guiVars>>

IdleConfig == environ = NoEnv /\ loaded = NoLoad
IdleService == service = NoService /\ svc = NoCall
IdleFactory == factory_args = NoFactoryArgs /\ made = NoMade
IdleRequest == /\ req = NoReq /\ request = NoRequest /\ answer = NoAnswer
               /\ gen_request = NoRequest
IdleWorkers == workers = <<>> /\ logs = NoLogs /\ clock = 0
IdleApp == IdleConfig /\ IdleService /\ IdleFactory /\ IdleRequest /\ IdleWorkers
           /\ IdlePrompt
           /\ IdleGui

InitPages ==
    /\ num_pages \in 1..MaxPages
    /\ page_indices = <<>>
    /\ pages_pc = "start"
    /\ max_dimension = DefaultMaxDimension
    /\ IdleResize
    /\ IdleDoc
    /\ IdleParse
    /\ IdleApp

SelectPages ==
    /\ pages_pc = "start"
    /\ page_indices' = get_page_indices(num_pages)
    /\ pages_pc' = "done"
    /\ UNCHANGED <<num_pages, max_dimension, resizeVars, docVars, parseVars,
                   appVars>>

NextPages == SelectPages

SpecPages == InitPages /\ [][NextPages]_vars

InitResize ==
    /\ img \in [w : Sides, h : Sides, mode : {"RGB"}]
    /\ max_dimension \in MaxDimensions
    /\ resized = NoResult
    /\ resized_again = NoResult
    /\ IdlePages
    /\ IdleDoc
    /\ IdleParse
    /\ IdleApp

ResizeImage ==
    /\ resized.st = "none"
    /\ \E low \in BOOLEAN : resized' = resize_image(img, max_dimension, low)
    /\ UNCHANGED <<img, resized_again, max_dimension, pagesVars, docVars,
                   parseVars, appVars>>

ResizeAgain ==
    /\ resized.st = "image"
    /\ resized_again.st = "none"
    /\ \E low \in BOOLEAN :
          resized_again' = resize_image(resized, max_dimension, low)
    /\ UNCHANGED <<img, resized, max_dimension, pagesVars, docVars, parseVars,
                   appVars>>

NextResize == ResizeImage \/ ResizeAgain

SpecResize == InitResize /\ [][NextResize]_vars

----------------------------------------------------------------------------
(* process_document applied to a path. *)

Init ==
    /\ doc \in Documents
    /\ max_dimension \in MaxDimensions
    /\ outcome = NoOutcome
    /\ IdlePages
    /\ IdleResize
    /\ IdleParse
    /\ IdleApp

ProcessDocument ==
    /\ outcome.st = "none"
    /\ \E lows \in [1..3 -> BOOLEAN] :
          outcome' = process_document(doc, max_dimension, lows)
    /\ UNCHANGED <<doc, max_dimension, pagesVars, resizeVars, parseVars,
                   appVars>>

Next == ProcessDocument

Spec == Init /\ [][Next]_vars

----------------------------------------------------------------------------
(* _parse_json_response applied to a reply text, and to its bare payload.  *)

InitParse ==
    /\ payload \in Payloads
    /\ wrap \in Wraps
    /\ response_text = Compose(wrap, payload)
    /\ parsed = NoParse
    /\ plain = NoParse
    /\ max_dimension = DefaultMaxDimension
    /\ IdlePages
    /\ IdleResize
    /\ IdleDoc
    /\ IdleApp

ParseReply ==
    /\ parsed.st = "none"
    /\ parsed' = parse_json_response(response_text)
    /\ UNCHANGED <<payload, wrap, response_text, plain, max_dimension,
                   pagesVars, resizeVars, docVars, appVars>>

ParsePlain ==
    /\ plain.st = "none"
    /\ plain' = parse_json_response(payload)
    /\ UNCHANGED <<payload, wrap, response_text, parsed, max_dimension,
                   pagesVars, resizeVars, docVars, appVars>>

NextParse == ParseReply \/ ParsePlain

SpecParse == InitParse /\ [][NextParse]_vars

----------------------------------------------------------------------------
(* load_config applied to an environment.                                  *)

coreVars == <<pagesVars, resizeVars, docVars, parseVars>>

IdleCore == IdlePages /\ IdleResize /\ IdleDoc /\ IdleParse

InitConfig ==
    /\ environ \in Envs
    /\ loaded = NoLoad
    /\ service = NoService
    /\ svc = [NoCall EXCEPT !.pc = "boot"]
    /\ max_dimension = DefaultMaxDimension
    /\ IdleCore
    /\ IdleFactory
    /\ IdleRequest
    /\ IdleWorkers
    /\ IdlePrompt
    /\ IdleGui

LoadConfig ==
    /\ svc.pc = "boot"
    /\ loaded' = load_config(environ)
    /\ svc' = [svc EXCEPT !.pc = IF loaded'.st = "returned"
                                 THEN "configured" ELSE "exit"]
    /\ UNCHANGED <<environ, service, max_dimension, coreVars, factoryVars,
                   requestVars, workerVars, promptVars, guiVars>>

NextConfig == LoadConfig

SpecConfig == InitConfig /\ [][NextConfig]_vars

----------------------------------------------------------------------------
(* create_client applied to a provider name, a key and a model.            *)

InitFactory ==
    /\ factory_args \in FactoryArgs
    /\ made = NoMade
    /\ max_dimension = DefaultMaxDimension
    /\ IdleCore
    /\ IdleConfig
    /\ IdleService
    /\ IdleRequest
    /\ IdleWorkers
    /\ IdlePrompt
    /\ IdleGui

CreateClient ==
    /\ made.st = "none"
    /\ made' = create_client(factory_args.provider, factory_args.api_key,
                             factory_args.model)
    /\ UNCHANGED <<factory_args, max_dimension, coreVars, configVars,
                   serviceVars, requestVars, workerVars, promptVars, guiVars>>

NextFactory == CreateClient

SpecFactory == InitFactory /\ [][NextFactory]_vars

----------------------------------------------------------------------------
(* An adapter's analyze_document, and _generate_with_provider under a      *)
(* Config selecting the same provider, model and budget.                   *)

provider_of(class) ==
    IF class = "ClaudeClient" THEN TxtClaude
    ELSE IF class = "OpenAIClient" THEN TxtOpenai
    ELSE TxtGemini

generator_config(r) ==
    [NoConfig EXCEPT !.vlm_provider = provider_of(r.client.class),
                     !.anthropic_api_key = Str(r.client.api_key),
                     !.openai_api_key = Str(r.client.api_key),
                     !.gemini_api_key = Str(r.client.api_key),
                     !.claude_model = r.client.model,
                     !.openai_model = r.client.model,
                     !.gemini_model = r.client.model,
                     !.vlm_max_tokens = r.max_tokens]

InitRequest ==
    /\ req \in Reqs
    /\ request = NoRequest
    /\ answer = NoAnswer
    /\ gen_request = NoRequest
    /\ max_dimension = DefaultMaxDimension
    /\ IdleCore
    /\ IdleConfig
    /\ IdleService
    /\ IdleFactory
    /\ IdleWorkers
    /\ IdlePrompt
    /\ IdleGui

AdapterCall ==
    /\ request = NoRequest
    /\ request' = build_request(req.client, req.prompt, req.images,
                                req.max_tokens)
    /\ \E reply \in AdapterReplies : answer' = client_analyze_document(reply)
    /\ UNCHANGED <<req, gen_request, max_dimension, coreVars, configVars,
                   serviceVars, factoryVars, workerVars, promptVars, guiVars>>

GenerateContext ==
    /\ gen_request = NoRequest
    /\ gen_request' = generate_request(generator_config(req), req.prompt)
    /\ UNCHANGED <<req, request, answer, max_dimension, coreVars, configVars,
                   serviceVars, factoryVars, workerVars, promptVars, guiVars>>

NextRequest == AdapterCall \/ GenerateContext

SpecRequest == InitRequest /\ [][NextRequest]_vars

----------------------------------------------------------------------------
(* Configuration, VLMService construction and one analyze_document call.   *)
(* The Config comes from load_config, or is built directly (Config(...),   *)
(* which validates nothing).  Each write to the prompt cache file can      *)
(* fail with OSError.                                                      *)

direct_config(env) ==
    [env_config(env) EXCEPT !.vlm_provider = getenv(env, "VLM_PROVIDER", TxtClaude)]

Failed(call, error) ==
    [call EXCEPT !.pc = "done",
                 !.result = [NoVerdict EXCEPT !.st = "raised", !.error = error]]

InitService ==
    /\ environ \in ServiceEnvs
    /\ loaded = NoLoad
    /\ service = NoService
    /\ svc = [NoCall EXCEPT !.pc = "boot"]
    /\ max_dimension = DefaultMaxDimension
    /\ IdleCore
    /\ IdleFactory
    /\ IdleRequest
    /\ IdleWorkers
    /\ IdlePrompt
    /\ IdleGui

DirectConfig ==
    /\ svc.pc = "boot"
    /\ loaded' = [NoLoad EXCEPT !.st = "built", !.config = direct_config(environ)]
    /\ svc' = [svc EXCEPT !.pc = "configured"]
    /\ UNCHANGED <<environ, service, max_dimension, coreVars, factoryVars,
                   requestVars, workerVars, promptVars, guiVars>>

ConstructService ==
    /\ svc.pc = "configured"
    /\ \E context \in ContextArgs :
          service' = VLMService(loaded.config, context)
    /\ svc' = [svc EXCEPT !.pc = IF service'.st = "ready" THEN "ready" ELSE "exit"]
    /\ max_dimension' = IF service'.st = "ready"
                        THEN service'.max_dimension ELSE max_dimension
    /\ UNCHANGED <<environ, loaded, coreVars, factoryVars, requestVars,
                   workerVars, promptVars, guiVars>>

AnalyzeProcess ==
    /\ svc.pc = "ready"
    /\ \E d \in ServiceDocuments, lows \in [1..3 -> BOOLEAN] :
          /\ doc' = d
          /\ outcome' = process_document(d, max_dimension, lows)
    /\ svc' = IF outcome'.st = "raised"
              THEN Failed(svc, Error(outcome'.error, outcome'.msg))
              ELSE [svc EXCEPT !.pc = "processed"]
    /\ UNCHANGED <<environ, loaded, service, max_dimension, pagesVars,
                   resizeVars, parseVars, factoryVars, requestVars, workerVars,
                   promptVars, guiVars>>

AnalyzeCachePrompt ==
    /\ svc.pc = "processed"
    /\ LET prompt == build_prompt(service.prompt_template, service.context,
                                  service.extra_instructions)
       IN  \E written \in BOOLEAN :
              svc' = IF written
                     THEN [svc EXCEPT !.pc = "cached", !.prompt = prompt,
                              !.log = <<Section("prompt", prompt, JNull, NoError)>>]
                     ELSE Failed([svc EXCEPT !.prompt = prompt],
                                 Error("OSError", ""))
    /\ UNCHANGED <<environ, loaded, service, max_dimension, coreVars,
                   factoryVars, requestVars, workerVars, promptVars, guiVars>>

Called(call, args, reply, result) ==
    [call EXCEPT !.calls = Append(@, args),
                 !.reply = reply,
                 !.answer = result,
                 !.pending = result.error,
                 !.pc = IF result.st = "returned" THEN "answered" ELSE "failing"]

AnalyzeCall ==
    /\ svc.pc = "cached"
    /\ \E reply \in ServiceReplies :
          svc' = Called(svc,
                        call_args(svc.prompt, outcome.images,
                                  service.config.vlm_max_tokens),
                        reply, client_analyze_document(reply))
    /\ UNCHANGED <<environ, loaded, service, max_dimension, coreVars,
                   factoryVars, requestVars, workerVars, promptVars, guiVars>>

AnalyzeRecordResponse ==
    /\ svc.pc = "answered"
    /\ \E written \in BOOLEAN :
          svc' = IF written
                 THEN [svc EXCEPT !.pc = "recorded",
                          !.log = Append(@, Section("response", <<>>,
                                                    svc.answer.value, NoError))]
                 ELSE [svc EXCEPT !.pc = "failing",
                          !.pending = Error("OSError", "")]
    /\ UNCHANGED <<environ, loaded, service, max_dimension, coreVars,
                   factoryVars, requestVars, workerVars, promptVars, guiVars>>

AnalyzeRecordError ==
    /\ svc.pc = "failing"
    /\ \E written \in BOOLEAN :
          svc' = IF written
                 THEN Failed([svc EXCEPT
                                !.log = Append(@, Section("error", <<>>, JNull,
                                                          svc.pending))],
                             svc.pending)
                 ELSE Failed(svc, [class |-> "OSError", msg |-> "",
                                   context |-> svc.pending.class])
    /\ UNCHANGED <<environ, loaded, service, max_dimension, coreVars,
                   factoryVars, requestVars, workerVars, promptVars, guiVars>>

AnalyzeMap ==
    /\ svc.pc = "recorded"
    /\ svc' = IF svc.answer.value.t = "object"
              THEN [svc EXCEPT !.pc = "done",
                       !.result = [NoVerdict EXCEPT !.st = "returned",
                                     !.suggestion =
                                         FilingSuggestion(svc.answer.value)]]
              ELSE Failed(svc, Error("AttributeError",
                                     "object has no attribute 'get'"))
    /\ UNCHANGED <<environ, loaded, service, max_dimension, coreVars,
                   factoryVars, requestVars, workerVars, promptVars, guiVars>>

NextService ==
    \/ LoadConfig
    \/ DirectConfig
    \/ ConstructService
    \/ AnalyzeProcess
    \/ AnalyzeCachePrompt
    \/ AnalyzeCall
    \/ AnalyzeRecordResponse
    \/ AnalyzeRecordError
    \/ AnalyzeMap

SpecService == InitService /\ [][NextService]_vars

----------------------------------------------------------------------------
(* Two analyze_document calls of one service running concurrently, each    *)
(* in its own worker, on the shared logs directory.  Images, prompt,       *)
(* reply and result are locals of the call; the cache file is opened by    *)
(* name.  datetime.now().isoformat() in the record has microseconds, so    *)
(* it differs between calls: it is <<second, worker>>.                     *)

WorkerIds == {1, 2}

WorkerDocument == Document("pdf", SfxPdf, <<PgScanSmall>>, NoImage)

WorkerReplies == {BackendReply(ReplyFull), AuthenticationError}

Entry(section, path, at, value, error) ==
    [section |-> section, path |-> path, at |-> at, value |-> value,
     error |-> error]

NoPath == [dir |-> "", name |-> <<>>]

StartWorker(path) ==
    [pc |-> "start", path |-> path, images |-> <<>>,
     cache_file |-> cache_file_name(0, <<>>), answer |-> NoAnswer,
     record |-> <<>>, result |-> NoVerdict]

InitWorkers ==
    /\ workers \in [WorkerIds -> {StartWorker(path) : path \in WorkerPaths}]
    /\ logs = NoLogs
    /\ clock = 0
    /\ max_dimension = DefaultMaxDimension
    /\ IdleCore
    /\ IdleConfig
    /\ IdleService
    /\ IdleFactory
    /\ IdleRequest
    /\ IdlePrompt
    /\ IdleGui

Tick ==
    /\ clock < MaxClock
    /\ clock' = clock + 1
    /\ UNCHANGED <<workers, logs, max_dimension, coreVars, configVars,
                   serviceVars, factoryVars, requestVars, promptVars,
                   guiVars>>

WorkerProcess(w) ==
    /\ workers[w].pc = "start"
    /\ \E lows \in [1..3 -> BOOLEAN] :
          LET processed == process_document(WorkerDocument, max_dimension, lows)
          IN  workers' = [workers EXCEPT ![w] =
                  IF processed.st = "raised"
                  THEN Failed(@, Error(processed.error, processed.msg))
                  ELSE [@ EXCEPT !.pc = "processed",
                                 !.images = processed.images]]
    /\ UNCHANGED <<logs, clock, max_dimension, coreVars, configVars,
                   serviceVars, factoryVars, requestVars, promptVars,
                   guiVars>>

(* open(cache_file, "w") and the writes of the prompt record. *)
WorkerCachePrompt(w) ==
    /\ workers[w].pc = "processed"
    /\ LET cache_file == cache_file_name(clock, workers[w].path.name)
           entry == Entry("prompt", workers[w].path, <<clock, w>>, JNull, NoError)
       IN  /\ logs' = [logs EXCEPT ![cache_file] = <<entry>>]
           /\ workers' = [workers EXCEPT ![w] =
                             [@ EXCEPT !.pc = "cached",
                                       !.cache_file = cache_file,
                                       !.record = <<entry>>]]
    /\ UNCHANGED <<clock, max_dimension, coreVars, configVars, serviceVars,
                   factoryVars, requestVars, promptVars, guiVars>>

WorkerCall(w) ==
    /\ workers[w].pc = "cached"
    /\ \E reply \in WorkerReplies :
          workers' = [workers EXCEPT ![w] =
                         [@ EXCEPT !.pc = "answered",
                                   !.answer = client_analyze_document(reply)]]
    /\ UNCHANGED <<logs, clock, max_dimension, coreVars, configVars,
                   serviceVars, factoryVars, requestVars, promptVars,
                   guiVars>>

(* open(cache_file, "a") and the write of the response, or of the error. *)
WorkerRecord(w) ==
    /\ workers[w].pc = "answered"
    /\ LET result == workers[w].answer
           entry == IF result.st = "returned"
                    THEN Entry("response", NoPath, <<>>, result.value, NoError)
                    ELSE Entry("error", NoPath, <<>>, JNull, result.error)
       IN  /\ logs' = [logs EXCEPT ![workers[w].cache_file] = Append(@, entry)]
           /\ workers' = [workers EXCEPT ![w] =
                  IF result.st = "returned"
                  THEN [@ EXCEPT !.pc = "recorded",
                                 !.record = Append(@, entry)]
                  ELSE Failed([@ EXCEPT !.record = Append(@, entry)],
                              result.error)]
    /\ UNCHANGED <<clock, max_dimension, coreVars, configVars, serviceVars,
                   factoryVars, requestVars, promptVars, guiVars>>

WorkerMap(w) ==
    /\ workers[w].pc = "recorded"
    /\ workers' = [workers EXCEPT ![w] =
           [@ EXCEPT !.pc = "done",
                     !.result = [NoVerdict EXCEPT !.st = "returned",
                                   !.suggestion =
                                       FilingSuggestion(workers[w].answer.value)]]]
    /\ UNCHANGED <<logs, clock, max_dimension, coreVars, configVars,
                   serviceVars, factoryVars, requestVars, promptVars,
                   guiVars>>

NextWorkers ==
    \/ Tick
    \/ \E w \in WorkerIds : WorkerProcess(w)
    \/ \E w \in WorkerIds : WorkerCachePrompt(w)
    \/ \E w \in WorkerIds : WorkerCall(w)
    \/ \E w \in WorkerIds : WorkerRecord(w)
    \/ \E w \in WorkerIds : WorkerMap(w)

SpecWorkers == InitWorkers /\ [][NextWorkers]_vars

----------------------------------------------------------------------------
(* C1: for every page count n >= 1, _get_page_indices(n) is [0] for n = 1, *)
(* [0,1] for n = 2, [0,1,2] for n = 3 and [0, floor(n/2), n-1] for n >= 4. *)
C1_PagePolicy ==
    pages_pc = "done" =>
        /\ num_pages = 1 => page_indices = <<0>>
        /\ num_pages = 2 => page_indices = <<0, 1>>
        /\ num_pages = 3 => page_indices = <<0, 1, 2>>
        /\ num_pages >= 4 =>
              /\ Len(page_indices) = 3
              /\ page_indices[1] = 0
              /\ 2 * page_indices[2] <= num_pages
              /\ num_pages < 2 * page_indices[2] + 2
              /\ page_indices[3] = num_pages - 1

C1_Witness ==
    pages_pc = "done" /\ num_pages = 10 /\ page_indices = <<0, 5, 9>>

Indices == {page_indices[i] : i \in 1..Len(page_indices)}

(* C2: for every page count >= 1 the index list is strictly increasing,    *)
(* has 1 to 3 entries, all in 0..n-1, contains 0, contains n-1 when        *)
(* n >= 2, and contains the midpoint floor(n/2) when n >= 4.               *)
C2_IndexSetInvariant ==
    pages_pc = "done" =>
        /\ \A i \in 1..Len(page_indices) - 1 :
              page_indices[i] < page_indices[i + 1]
        /\ Len(page_indices) \in 1..3
        /\ Indices \subseteq 0..(num_pages - 1)
        /\ 0 \in Indices
        /\ num_pages >= 2 => (num_pages - 1) \in Indices
        /\ num_pages >= 4 => (num_pages \div 2) \in Indices

C2_Witness ==
    /\ pages_pc = "done"
    /\ num_pages = 4
    /\ Indices = {0, 2, 3}

WithinOnePixel(got, a, m, b) ==
    \* |got - a * m / b| <= 1, without division
    /\ got * b - a * m <= b
    /\ a * m - got * b <= b

(* C3: for every source image with max(width, height) > max_dimension,     *)
(* _resize_image yields an image whose larger axis equals max_dimension    *)
(* exactly and whose smaller axis is the proportionally scaled value       *)
(* within one pixel.                                                       *)
C3_DownscaleYieldsImage ==
    (resized.st # "none" /\ Max(img.w, img.h) > max_dimension) =>
        /\ resized.st = "image"
        /\ Max(resized.w, resized.h) = max_dimension
        /\ IF img.w > img.h
           THEN /\ resized.w = max_dimension
                /\ WithinOnePixel(resized.h, img.h, max_dimension, img.w)
           ELSE /\ resized.h = max_dimension
                /\ WithinOnePixel(resized.w, img.w, max_dimension, img.h)

(* C4: an image with max(width, height) <= max_dimension keeps its pixel   *)
(* dimensions, and _resize_image applied to its own output never changes   *)
(* the dimensions again.                                                   *)
C4_NoUpscaleIdempotent ==
    /\ (resized.st # "none" /\ Max(img.w, img.h) <= max_dimension) =>
          (resized.st = "image" /\ resized.w = img.w /\ resized.h = img.h)
    /\ resized_again.st # "none" =>
          /\ resized_again.st = "image"
          /\ resized_again.w = resized.w
          /\ resized_again.h = resized.h

C4_Witness ==
    /\ img.w = TestLongSide /\ img.h = TestShortSide
    /\ max_dimension = DefaultMaxDimension
    /\ resized.w = 2048 /\ resized.h = 1365
    /\ resized_again.st = "image"
    /\ resized_again.w = 2048 /\ resized_again.h = 1365

(* C5: every image in the list process_document returns satisfies          *)
(* max(width, height) <= max_dimension, for every positive max_dimension   *)
(* and every document.                                                     *)
C5_ReturnedImagesWithinBound ==
    outcome.st = "returned" =>
        \A i \in 1..Len(outcome.images) :
            Max(outcome.images[i].w, outcome.images[i].h) <= max_dimension

IsPdfCall == doc.kind = "pdf" /\ lower(doc.suffix) = SfxPdf

SelectedPages ==
    LET indices == get_page_indices(Len(doc.pages))
    IN  {indices[j] + 1 : j \in 1..Len(indices)}

PageYieldsNoImage(page) ==
    \/ ~page.resources
    \/ ~page.has_xobject
    \/ \A low \in BOOLEAN : page_images(page.objs, 1, max_dimension, low) = <<>>

(* C6: when no selected page of a PDF yields an image (it has no           *)
(* extractable image, or its extraction failed), process_document fails    *)
(* with an error that reaches the caller and does not return normally.     *)
C6_ExtractionFailureSurfaced ==
    (/\ outcome.st # "none"
     /\ IsPdfCall
     /\ \A p \in SelectedPages : PageYieldsNoImage(doc.pages[p]))
    => outcome.st = "raised"

SupportedSuffixTexts ==
    {<<".", "p", "d", "f">>, <<".", "p", "n", "g">>, <<".", "j", "p", "g">>,
     <<".", "j", "p", "e", "g">>, <<".", "t", "i", "f", "f">>,
     <<".", "t", "i", "f">>, <<".", "b", "m", "p">>}

SameIgnoringCase(s, t) ==
    /\ Len(s) = Len(t)
    /\ \A i \in 1..Len(s) :
          \/ s[i] = t[i]
          \/ \E k \in 1..Len(UpperCase) :
                {s[i], t[i]} = {UpperCase[k], LowerCase[k]}

SuffixSupported == \E t \in SupportedSuffixTexts : SameIgnoringCase(doc.suffix, t)

(* C7: for a path at which nothing exists process_document raises          *)
(* FileNotFoundError whatever the suffix, and for an existing path whose   *)
(* suffix, compared case-insensitively, is outside the supported set it    *)
(* raises ValueError "Unsupported file format"; no image list is returned  *)
(* in either case.                                                         *)
C7_InputErrors ==
    outcome.st # "none" =>
        /\ doc.kind = "missing" =>
              /\ outcome.st = "raised"
              /\ outcome.error = "FileNotFoundError"
              /\ outcome.images = <<>>
        /\ (doc.kind # "missing" /\ ~SuffixSupported) =>
              /\ outcome.st = "raised"
              /\ outcome.error = "ValueError"
              /\ outcome.msg = "Unsupported file format"
              /\ outcome.images = <<>>

C7_Witness ==
    /\ doc.kind = "missing"
    /\ doc.suffix = <<".", "t", "x", "t">>
    /\ outcome.st = "raised"
    /\ outcome.error = "FileNotFoundError"

IsObjectText(text) == decode(text, TRUE).ok /\ decode(text, TRUE).val.t = "object"

FencedOrPlainWrap ==
    /\ wrap.before = <<>>
    /\ wrap.after = <<>>
    /\ \/ wrap.fence = "none" /\ ~wrap.close
       \/ wrap.fence \in {"json", "bare"} /\ wrap.close

(* C8: for every JSON object text J, _parse_json_response returns the same *)
(* mapping for J inside a json-tagged fence, J inside a bare fence and J   *)
(* unfenced, each between arbitrary whitespace: every such wrapping of J   *)
(* returns the mapping the bare J returns.                                 *)
C8_FenceRoundTrip ==
    (/\ parsed.st # "none"
     /\ plain.st # "none"
     /\ IsObjectText(payload)
     /\ FencedOrPlainWrap)
    => /\ parsed.st = "returned"
       /\ plain.st = "returned"
       /\ parsed.value.t = "object"
       /\ parsed.value = plain.value

C8_Witness ==
    /\ payload = TextSuggestion
    /\ wrap.before = <<>> /\ wrap.after = <<>>
    /\ wrap.fence = "bare" /\ wrap.close
    /\ wrap.lead = <<"\f">> /\ wrap.inner1 = <<"\n">>
    /\ parsed.st = "returned"
    /\ plain.st = "returned"
    /\ parsed.value.m # {}

ClaimStripped(text) ==
    LET t0 == strip(text)
        t1 == IF startswith(t0, FenceJson) THEN drop_first(t0, 7)
              ELSE IF startswith(t0, FenceBare) THEN drop_first(t0, 3)
              ELSE t0
        t2 == IF endswith(t1, FenceBare) THEN drop_last(t1, 3) ELSE t1
    IN  strip(t2)

(* C9: whenever the reply text, after stripping an optional leading fence  *)
(* marker and an optional trailing fence marker, is not strictly valid     *)
(* JSON, _parse_json_response raises ValueError "Invalid JSON response"    *)
(* and returns no mapping.                                                 *)
C9_MalformedRejected ==
    (parsed.st # "none" /\ ~decode(ClaimStripped(response_text), TRUE).ok)
    => /\ parsed.st = "raised"
       /\ parsed.error = "ValueError"
       /\ parsed.msg = "Invalid JSON response: "

(* C10: the malformed-response error carries the offending raw reply text, *)
(* so that the caller receiving the error can obtain that text.            *)
C10_ErrorCarriesRawText ==
    parsed.st = "raised" => parsed.cause_doc = response_text

(* The value a mapping gives for a key, or the default when it has none. *)
FieldOf(raw, key, default, got) ==
    /\ \A p \in raw.m : p[1] = key => got = p[2]
    /\ (~\E p \in raw.m : p[1] = key) => got = default

(* C11: the FilingSuggestion analyze_document returns has, for each of the *)
(* four fields, the raw mapping's value unchanged when the key is present  *)
(* (whatever its type or range) and the fixed default when it is absent:   *)
(* "untitled.pdf", "unsorted", 0.0, "No reasoning provided"; extra keys    *)
(* are ignored and the empty mapping gives the four defaults.              *)
C11_FieldMapping ==
    svc.result.st = "returned" =>
        LET R == svc.answer.value
            S == svc.result.suggestion
        IN  /\ FieldOf(R, KeyFilename, JString(DefaultFilename), S.filename)
            /\ FieldOf(R, KeyDestination, JString(DefaultDestination),
                       S.destination)
            /\ FieldOf(R, KeyConfidence, JNumber(0, 0), S.confidence)
            /\ FieldOf(R, KeyReasoning, JString(DefaultReasoning), S.reasoning)
            /\ DOMAIN S = {"filename", "destination", "confidence", "reasoning"}
            /\ R.m = {} => S = [filename |-> JString(DefaultFilename),
                                destination |-> JString(DefaultDestination),
                                confidence |-> JNumber(0, 0),
                                reasoning |-> JString(DefaultReasoning)]

C11_Witness ==
    /\ svc.result.st = "returned"
    /\ svc.reply = BackendReply(ReplyNullFilename)
    /\ svc.result.suggestion.filename = JNull
    /\ svc.result.suggestion.confidence = JNumber(7, 0)
    /\ svc.result.suggestion.destination = JString(DefaultDestination)

TaxonomyErrors ==
    {"FileNotFoundError",                       \* not-found
     "ValueError",                              \* unsupported format,
                                                \* malformed response
     "KeyError", "PdfReadError", "UnidentifiedImageError",
     "IsADirectoryError",                       \* extraction failure
     "AuthenticationError", "APIConnectionError"}  \* provider transport

(* C12: for every document and every reply text the backend can return     *)
(* (valid JSON that is not an object included), analyze_document returns   *)
(* a four-field FilingSuggestion or raises one of the error kinds of the   *)
(* taxonomy, and the raw provider result it maps is a key-value mapping.   *)
(* Stated for the calls whose log writes all succeed.                      *)
C12_ClosedOutcomes ==
    /\ svc.pc = "recorded" => svc.answer.value.t = "object"
    /\ (svc.pc = "done" /\ svc.result.error.class # "OSError") =>
          \/ /\ svc.result.st = "returned"
             /\ DOMAIN svc.result.suggestion =
                    {"filename", "destination", "confidence", "reasoning"}
          \/ /\ svc.result.st = "raised"
             /\ svc.result.error.class \in TaxonomyErrors

(* C13: within one analyze_document call the provider adapter is invoked   *)
(* at most once, only after process_document has returned, with exactly   *)
(* the image list process_document returned, the built prompt and the      *)
(* configured token budget; when process_document or the provider call     *)
(* fails the call raises and returns no FilingSuggestion.                  *)
C13_Sequencing ==
    /\ Len(svc.calls) <= 1
    /\ Len(svc.calls) = 1 =>
          /\ outcome.st = "returned"
          /\ svc.calls[1].images = outcome.images
          /\ svc.calls[1].prompt = svc.prompt
          /\ svc.log[1].text = svc.prompt
          /\ svc.calls[1].max_tokens = service.config.vlm_max_tokens
          /\ service.config = loaded.config
    /\ outcome.st = "raised" => svc.calls = <<>>
    /\ (svc.pc = "done" /\ (outcome.st = "raised" \/ svc.answer.st = "raised")) =>
          /\ svc.result.st = "raised"
          /\ svc.result.suggestion = NoSuggestion

C13_Witness ==
    /\ svc.pc = "done"
    /\ svc.result.st = "returned"
    /\ Len(svc.calls) = 1
    /\ Len(svc.calls[1].images) = 2
    /\ svc.calls[1].max_tokens = 16

(* C14: a transport or authentication error raised by the backend call     *)
(* reaches the caller of analyze_document unchanged: the exception the     *)
(* caller receives is the very error the backend raised, in every          *)
(* execution, also when writing the error to the log fails.                *)
C14_TransportErrorUnchanged ==
    (svc.pc = "done" /\ svc.reply.kind = "error") =>
        /\ svc.result.st = "raised"
        /\ svc.result.error = svc.reply.error

B64Index(c) ==
    IF c = "=" THEN 0 ELSE (CHOOSE k \in 1..64 : B64Alphabet[k] = c) - 1

IsB64(cs) ==
    /\ Len(cs) % 4 = 0
    /\ \A i \in 1..Len(cs) :
          \/ \E k \in 1..64 : B64Alphabet[k] = cs[i]
          \/ cs[i] = "=" /\ i > Len(cs) - 2 /\ \A j \in i..Len(cs) : cs[j] = "="

RECURSIVE b64decode(_)
b64decode(cs) ==
    IF cs = <<>> THEN <<>>
    ELSE LET n == B64Index(cs[1]) * 262144 + B64Index(cs[2]) * 4096
                  + B64Index(cs[3]) * 64 + B64Index(cs[4])
             pad == IF cs[3] = "=" THEN 2 ELSE IF cs[4] = "=" THEN 1 ELSE 0
             three == <<n \div 65536, (n \div 256) % 256, n % 256>>
         IN  SubSeq(three, 1, 3 - pad) \o b64decode(SubSeq(cs, 5, Len(cs)))

PngDataUrl == <<"d", "a", "t", "a", ":", "i", "m", "a", "g", "e", "/", "p",
                "n", "g", ";", "b", "a", "s", "e", "6", "4", ",">>

IsPngPartOf(class, part, image) ==
    IF class = "ClaudeClient"
    THEN /\ part.type = "image"
         /\ part.source.media_type = "image/png"
         /\ IsB64(part.source.data)
         /\ b64decode(part.source.data) = image
    ELSE IF class = "OpenAIClient"
    THEN /\ part.type = "image_url"
         /\ Len(part.image_url.url) >= Len(PngDataUrl)
         /\ SubSeq(part.image_url.url, 1, Len(PngDataUrl)) = PngDataUrl
         /\ LET data == SubSeq(part.image_url.url, Len(PngDataUrl) + 1,
                               Len(part.image_url.url))
            IN  IsB64(data) /\ b64decode(data) = image
    ELSE /\ part.type = "inline_data"
         /\ part.inline_data.mime_type = "image/png"
         /\ part.inline_data.data = image

UserContent(class, sent) ==
    IF class = "GeminiClient" THEN sent["contents"]
    ELSE sent["messages"][1].content

(* C15: for each of the three adapters and every image list of length N,   *)
(* the single user message has exactly N + 1 parts: the first N are image  *)
(* parts, part i encoding images[i] with the PNG media type, and the last  *)
(* is the one text part holding the prompt unchanged.                      *)
C15_RequestShape ==
    request # NoRequest =>
        LET class == req.client.class
            content == UserContent(class, request)
            N == Len(req.images)
        IN  /\ class # "GeminiClient" =>
                  /\ Len(request["messages"]) = 1
                  /\ request["messages"][1].role = "user"
            /\ Len(content) = N + 1
            /\ \A i \in 1..N : IsPngPartOf(class, content[i], req.images[i])
            /\ content[N + 1] = [type |-> "text", text |-> req.prompt]

C15_Witness ==
    /\ request # NoRequest
    /\ req.client.class = "OpenAIClient"
    /\ req.images = <<<<137, 80, 78, 71>>, <<80, 78>>>>
    /\ Len(request["messages"][1].content) = 3
    /\ request["messages"][1].content[2].image_url.url =
           PngDataUrl \o <<"U", "E", "4", "=">>

TokenParameters == {"max_tokens", "max_completion_tokens"}

NewerModel(model) ==
    \/ Len(model) >= 3 /\ model[1] = "o" /\ model[2] = "1" /\ model[3] = "-"
    \/ /\ Len(model) >= 5
       /\ model[1] = "g" /\ model[2] = "p" /\ model[3] = "t"
       /\ model[4] = "-" /\ model[5] = "5"

OneTokenParameter(sent, model, budget) ==
    LET given == DOMAIN sent \cap TokenParameters
    IN  /\ Cardinality(given) = 1
        /\ \A k \in given : sent[k] = budget
        /\ "max_completion_tokens" \in given <=> NewerModel(model)

(* C16: every request of the OpenAI adapter carries exactly one of         *)
(* max_tokens / max_completion_tokens, its value is the max_tokens         *)
(* argument, and it is max_completion_tokens exactly when the model id     *)
(* starts with "o1-" or "gpt-5"; the context generator's OpenAI request    *)
(* follows the same rule with its own budget.                              *)
C16_TokenParameter ==
    req.client.class = "OpenAIClient" =>
        /\ request # NoRequest =>
              OneTokenParameter(request, req.client.model, req.max_tokens)
        /\ gen_request # NoRequest =>
              OneTokenParameter(gen_request, req.client.model,
                                2 * req.max_tokens)

C16_Witness ==
    /\ req.client.class = "OpenAIClient"
    /\ req.client.model = ModelGpt5Mini
    /\ request # NoRequest
    /\ gen_request # NoRequest
    /\ "max_completion_tokens" \in DOMAIN request
    /\ "max_tokens" \notin DOMAIN gen_request

FactoryClass ==
    IF SameIgnoringCase(factory_args.provider, <<"c", "l", "a", "u", "d", "e">>)
    THEN "ClaudeClient"
    ELSE IF SameIgnoringCase(factory_args.provider,
                             <<"o", "p", "e", "n", "a", "i">>)
    THEN "OpenAIClient"
    ELSE IF SameIgnoringCase(factory_args.provider,
                             <<"g", "e", "m", "i", "n", "i">>)
    THEN "GeminiClient"
    ELSE "none"

(* C17: create_client returns a ClaudeClient, OpenAIClient or GeminiClient *)
(* when the provider equals "claude", "openai" or "gemini" compared        *)
(* case-insensitively, configured with the given model id, and raises      *)
(* ValueError "Unsupported provider" for every other provider string       *)
(* without constructing a client.                                          *)
C17_ProviderFactory ==
    made.st # "none" =>
        IF FactoryClass # "none"
        THEN /\ made.st = "returned"
             /\ made.client.class = FactoryClass
             /\ made.client.model = factory_args.model
             /\ made.client.api_key = factory_args.api_key
        ELSE /\ made.st = "raised"
             /\ made.error = "ValueError"
             /\ made.msg = "Unsupported provider: "
             /\ made.constructed = <<>>
             /\ made.client = NoClient

C17_Witness ==
    /\ factory_args.provider = <<"O", "p", "e", "n", "A", "I">>
    /\ factory_args.model = ModelO1Mini
    /\ made.st = "returned"
    /\ made.client.class = "OpenAIClient"
    /\ made.client.model = ModelO1Mini

(* The Config in use: the one built directly, or the one load_config is    *)
(* to build from the environment.                                          *)
ConfigInUse ==
    IF loaded.st = "built" THEN loaded.config ELSE env_config(environ)

NoKeyForProvider(config) ==
    LET key == IF config.vlm_provider = <<"c", "l", "a", "u", "d", "e">>
               THEN config.anthropic_api_key
               ELSE IF config.vlm_provider = <<"o", "p", "e", "n", "a", "i">>
               THEN config.openai_api_key
               ELSE IF config.vlm_provider = <<"g", "e", "m", "i", "n", "i">>
               THEN config.gemini_api_key
               ELSE [set |-> FALSE, text |-> <<>>]
    IN  ~key.set \/ Len(key.text) = 0

(* C18: when the configuration has no non-empty API key for the selected   *)
(* provider (None or the empty string, whatever the other providers'       *)
(* keys), load_config raises and VLMService construction raises, so no     *)
(* process_document call and no backend call is made under it.             *)
C18_MissingCredentialFirst ==
    (svc.pc # "boot" /\ NoKeyForProvider(ConfigInUse)) =>
        /\ loaded.st \in {"raised", "built"}
        /\ loaded.st = "raised" => /\ loaded.error = "ValueError"
                                   /\ svc.pc = "exit"
        /\ service.st \in {"none", "raised"}
        /\ service.st = "none" => svc.pc \in {"configured", "exit"}
        /\ service.st = "raised" => svc.pc = "exit"
        /\ outcome = NoOutcome
        /\ svc.calls = <<>>
        /\ svc.result = NoVerdict

C18_Witness ==
    /\ environ.VLM_PROVIDER = Str(TxtClaude)
    /\ environ.ANTHROPIC_API_KEY = Str(<<>>)
    /\ environ.OPENAI_API_KEY = Str(ApiKey)
    /\ loaded.st = "built"
    /\ service.st = "raised"
    /\ service.error.class = "ValueError"
    /\ svc.pc = "exit"

PositiveIntTexts ==
    {<<"1", "6">>, <<" ", "7", " ">>, <<"4">>, <<"1", "_", "0">>}

LogLevelTexts ==
    {<<"D", "E", "B", "U", "G">>, <<"I", "N", "F", "O">>,
     <<"W", "A", "R", "N", "I", "N", "G">>, <<"E", "R", "R", "O", "R">>,
     <<"C", "R", "I", "T", "I", "C", "A", "L">>}

ProviderTexts ==
    {<<"c", "l", "a", "u", "d", "e">>, <<"o", "p", "e", "n", "a", "i">>,
     <<"g", "e", "m", "i", "n", "i">>}

BadNumber(v) == v.set /\ v.text \notin PositiveIntTexts

EnvironmentInvalid ==
    \/ /\ environ.VLM_PROVIDER.set
       /\ \A t \in ProviderTexts : ~SameIgnoringCase(environ.VLM_PROVIDER.text, t)
    \/ BadNumber(environ.VLM_MAX_TOKENS)
    \/ BadNumber(environ.IMAGE_DPI)
    \/ BadNumber(environ.MAX_IMAGE_DIMENSION)
    \/ BadNumber(environ.PDF_PAGES_TO_EXTRACT)
    \/ /\ environ.LOG_LEVEL.set
       /\ \A t \in LogLevelTexts : ~SameIgnoringCase(environ.LOG_LEVEL.text, t)
    \/ NoKeyForProvider(env_config(environ))

(* C19: every Config load_config returns has vlm_provider among "claude",  *)
(* "openai", "gemini", a non-empty API key for that provider, positive     *)
(* vlm_max_tokens, image_dpi, max_image_dimension and                      *)
(* pdf_pages_to_extract, and log_level among DEBUG, INFO, WARNING, ERROR,  *)
(* CRITICAL; for an environment violating one of these load_config raises  *)
(* ValueError and returns no Config.                                       *)
C19_LoadedConfigValid ==
    /\ loaded.st = "returned" =>
          LET c == loaded.config
          IN  /\ c.vlm_provider \in ProviderTexts
              /\ ~NoKeyForProvider(c)
              /\ c.vlm_max_tokens > 0
              /\ c.image_dpi > 0
              /\ c.max_image_dimension > 0
              /\ c.pdf_pages_to_extract > 0
              /\ c.log_level \in LogLevelTexts
    /\ (loaded.st # "none" /\ EnvironmentInvalid) =>
          /\ loaded.st = "raised"
          /\ loaded.error = "ValueError"
          /\ loaded.config = NoConfig

C19_Witness ==
    /\ environ.VLM_PROVIDER = Str(TxtOpenAIMixed)
    /\ environ.VLM_MAX_TOKENS = Str(TextPadded7)
    /\ environ.LOG_LEVEL = Str(TextDebugLower)
    /\ loaded.st = "returned"
    /\ loaded.config.vlm_provider = TxtOpenai
    /\ loaded.config.vlm_max_tokens = 7
    /\ loaded.config.pdf_pages_to_extract = 10
    /\ loaded.config.log_level = LevelDebug

(* C20: when two analyze_document calls run concurrently, in any           *)
(* interleaving, nothing one call has written is overwritten or modified   *)
(* by the other: the prompt and response record of each call holds what    *)
(* that call wrote, and nothing else.                                      *)
C20_CallsIsolated ==
    \A w \in DOMAIN workers :
        workers[w].record # <<>> =>
            logs[workers[w].cache_file] = workers[w].record


(* Whether a page can give the image: one of its image XObjects, resized. *)
PageCanYield(page, im) ==
    /\ page.has_xobject
    /\ \E k \in 1..Len(page.objs), low \in BOOLEAN :
          LET obj == page.objs[k]
              processed == resize_image([w |-> obj.w, h |-> obj.h,
                                         mode |-> xobject_mode(obj)],
                                        max_dimension, low)
          IN  /\ obj.subtype = "/Image"
              /\ processed.st = "image"
              /\ im = image_to_bytes(processed)

IsPlaceholder(im) == im.w = PlaceholderSide /\ im.h = PlaceholderSide

(* The images come from distinct selected pages, in increasing page order. *)
InPageOrder(images, pages, indices) ==
    \E f \in [1..Len(images) -> 1..Len(indices)] :
        /\ \A i \in 1..Len(images) : \A j \in 1..Len(images) :
              i < j => indices[f[i]] < indices[f[j]]
        /\ \A i \in 1..Len(images) :
              PageCanYield(pages[indices[f[i]] + 1], images[i])

(* C21: process_document returns between 1 and 3 images: for a PDF at most *)
(* one image per selected page, in increasing page order, for a raster     *)
(* image file exactly one; it never returns an empty list.                 *)
C21_OneToThreeImages ==
    outcome.st = "returned" =>
        /\ Len(outcome.images) \in 1..3
        /\ doc.kind = "raster" => Len(outcome.images) = 1
        /\ doc.kind = "pdf" =>
              \/ /\ Len(outcome.images) = 1
                 /\ IsPlaceholder(outcome.images[1])
              \/ InPageOrder(outcome.images, doc.pages,
                             get_page_indices(Len(doc.pages)))

C21_Witness ==
    /\ outcome.st = "returned"
    /\ doc.kind = "pdf"
    /\ doc.pages = <<PgScanSmall, PgText, PgMixed, PgScanLarge>>
    /\ max_dimension = DefaultMaxDimension
    /\ Len(outcome.images) = 3
    /\ outcome.images[2].w = 5
    /\ outcome.images[3].w = DefaultMaxDimension

(* C29: for every source image with width and height at least 1 and every *)
(* max_dimension at least 1, the target size _resize_image computes has    *)
(* both axes at least 1.                                                   *)
C29_TargetSizePositive ==
    (resized.st # "none" /\ img.w >= 1 /\ img.h >= 1 /\ max_dimension >= 1)
        => (resized.w >= 1 /\ resized.h >= 1)

----------------------------------------------------------------------------
(* VLMService._build_prompt applied to a template, a context and extra     *)
(* instructions.                                                           *)

ContextSeeExtra ==
    <<"S", "e", "e", " ", "{", "e", "x", "t", "r", "a", "_", "i", "n", "s",
      "t", "r", "u", "c", "t", "i", "o", "n", "s", "}">>

ExtraBrief ==
    <<"B", "e", " ", "b", "r", "i", "e", "f">>

TemplateTwice ==
    <<"{", "c", "o", "n", "t", "e", "x", "t", "}", " ", "/", " ", "{", "c",
      "o", "n", "t", "e", "x", "t", "}">>

TemplatePlain ==
    <<"N", "a", "m", "e", " ", "t", "h", "e", " ", "f", "i", "l", "e">>

PromptTemplates ==
    {DefaultPromptTemplate, PlaceholderContext, TemplateTwice, TemplatePlain,
     PlaceholderExtra \o PlaceholderContext}

PromptContexts ==
    {<<>>, DefaultContextText, ContextBills, ContextSeeExtra,
     PlaceholderContext, PlaceholderExtra}

PromptExtras == {<<>>, ExtraBrief, PlaceholderContext, PlaceholderExtra}

InitPrompt ==
    /\ prompt_args \in [prompt_template : PromptTemplates,
                        context : PromptContexts,
                        extra_instructions : PromptExtras]
    /\ built_prompt = NoPrompt
    /\ max_dimension = DefaultMaxDimension
    /\ IdleCore
    /\ IdleConfig
    /\ IdleService
    /\ IdleFactory
    /\ IdleRequest
    /\ IdleWorkers
    /\ IdleGui

BuildPrompt ==
    /\ built_prompt.st = "none"
    /\ built_prompt' =
          [st |-> "built",
           text |-> build_prompt(prompt_args.prompt_template,
                                 prompt_args.context,
                                 prompt_args.extra_instructions)]
    /\ UNCHANGED <<prompt_args, max_dimension, coreVars, configVars,
                   serviceVars, factoryVars, requestVars, workerVars, guiVars>>

NextPrompt == BuildPrompt

SpecPrompt == InitPrompt /\ [][NextPrompt]_vars

(* Whether the text part occurs in the text s. *)
RECURSIVE contains(_, _)
contains(s, part) ==
    IF Len(s) < Len(part) THEN FALSE
    ELSE IF startswith(s, part) THEN TRUE
    ELSE contains(Tail(s), part)

(* C22: for every context and every template holding the placeholder      *)
(* {context}, the prompt _build_prompt returns contains the context text   *)
(* verbatim.                                                               *)
C22_PromptContainsContext ==
    (/\ built_prompt.st = "built"
     /\ contains(prompt_args.prompt_template, PlaceholderContext))
        => contains(built_prompt.text, prompt_args.context)

----------------------------------------------------------------------------
(* The main window (gui/main_window.py) with the two text fields of the    *)
(* viewer (gui/file_viewer.py), the ProcessingThread and the               *)
(* ContextGenerationThread.                                                *)
(*                                                                         *)
(* A path is [dir, name]: dir the list of directory names, name the file   *)
(* name as text; the path of a directory has the empty name.  The file     *)
(* system maps each path that holds a file to that file's identity.        *)
(* Signals from the threads are queued to the main thread and handled in   *)
(* order; a modal QMessageBox runs its own event loop, so queued signals   *)
(* are handled while a confirmation is open, and the user can do nothing   *)
(* else.  An exception leaving a slot ends the process (PyQt6 calls        *)
(* qFatal, no excepthook is installed).  DEFAULT_DEST_BASE is unset.       *)
(***************************************************************************)

MaxActions == 4

NameA == <<"a", ".", "p", "d", "f">>
NameB == <<"b", ".", "p", "d", "f">>
NameX == <<"x", ".", "p", "d", "f">>
NameNote == <<"n", ".", "t", "x", "t">>
DestFin == <<"F", "i", "n">>
FolderA == << <<"A">> >>
FolderB == << <<"B">> >>
Folders == {FolderA, FolderB}

GuiPath(dir, name) == [dir |-> dir, name |-> name]

(* Path(base) / text *)
joinpath(dir, text) == GuiPath(dir, text)
subdir(dir, text) == IF text = <<>> THEN dir ELSE Append(dir, text)

(* Path.exists(): a file lies there, or it is a directory. *)
exists(fs, path) == path.name = <<>> \/ path \in DOMAIN fs

(* Path.rename on POSIX: the file moves, replacing a file at the target. *)
os_rename(fs, src, dst) ==
    [p \in (DOMAIN fs \ {src}) \cup {dst} |-> IF p = dst THEN fs[src] ELSE fs[p]]

InitialDisk ==
    [p \in {GuiPath(FolderA, NameA), GuiPath(FolderA, NameB)} |->
        IF p.name = NameA THEN 1 ELSE 2]

FileIds == {1, 2}

(* FilingSuggestion instances with text fields, and an exception. *)
Filing(filename, destination, confidence, reasoning) ==
    [type |-> "FilingSuggestion", filename |-> filename,
     destination |-> destination, confidence |-> confidence,
     reasoning |-> reasoning]

AnalysisError ==
    [type |-> "Exception", filename |-> <<>>, destination |-> <<>>,
     confidence |-> 0, reasoning |-> ""]

IsFilingSuggestion(s) == s.type = "FilingSuggestion"
IsException(s) == s.type = "Exception"

(* What analyze_document(file_path) can give the thread. *)
AnalysisResults ==
    {Filing(n, d, 90, "analysis") : n \in {NameX}, d \in {<<>>, DestFin}}

ThreadResults(fs, file_path) ==
    IF file_path \in DOMAIN fs THEN AnalysisResults \cup {AnalysisError}
    ELSE {AnalysisError}

TypedFilenames == {<<>>, NameNote}
TypedDestinations == {<<>>, DestFin}

(* dict operations *)
Put(f, k, v) == [x \in DOMAIN f \cup {k} |-> IF x = k THEN v ELSE f[x]]
Update(f, g) ==
    [x \in DOMAIN f \cup DOMAIN g |-> IF x \in DOMAIN g THEN g[x] ELSE f[x]]
Without(f, keys) == [x \in DOMAIN f \ keys |-> f[x]]
Elements(s) == {s[i] : i \in 1..Len(s)}

(* folder.glob(pattern) for each pattern in turn; the order within one     *)
(* pattern is the directory's order, which is any order.                   *)
GlobPatterns ==
    <<SfxPdf, SfxPng, <<".", "j", "p", "g">>, <<".", "j", "p", "e", "g">>,
      <<".", "t", "i", "f", "f">>, <<".", "t", "i", "f">>,
      <<".", "b", "m", "p">>>>

Orderings(S) ==
    {q \in [1..Cardinality(S) -> S] :
        \A i \in 1..Cardinality(S) : \A j \in 1..Cardinality(S) :
            i # j => q[i] # q[j]}

RECURSIVE glob_files(_, _, _)
glob_files(fs, dir, k) ==
    IF k > Len(GlobPatterns) THEN {<<>>}
    ELSE LET matching == {p \in DOMAIN fs :
                            p.dir = dir /\ endswith(p.name, GlobPatterns[k])}
         IN  {a \o b : a \in Orderings(matching),
                       b \in glob_files(fs, dir, k + 1)}

(* The window's fields the handlers read and write; crashed when an        *)
(* exception left a slot.                                                  *)
Window ==
    [files |-> files, checked |-> checked, suggestions |-> suggestions,
     current_file_index |-> current_file_index,
     filename_edit |-> filename_edit, dest_edit |-> dest_edit,
     crashed |-> FALSE]

(* MainWindow._on_viewer_filename_changed *)
on_viewer_filename_changed(w, text) ==
    IF w.current_file_index < 0 THEN w
    ELSE IF w.current_file_index >= Len(w.files)
    THEN [w EXCEPT !.crashed = TRUE]
    ELSE LET file_path == w.files[w.current_file_index + 1]
         IN  IF /\ file_path \in DOMAIN w.suggestions
                /\ IsFilingSuggestion(w.suggestions[file_path])
             THEN [w EXCEPT !.suggestions[file_path].filename = text]
             ELSE [w EXCEPT !.suggestions =
                      Put(@, file_path,
                          Filing(text, <<>>, 100, "Manual override"))]

(* MainWindow._on_viewer_destination_changed *)
on_viewer_destination_changed(w, text) ==
    IF w.current_file_index < 0 THEN w
    ELSE IF w.current_file_index >= Len(w.files)
    THEN [w EXCEPT !.crashed = TRUE]
    ELSE LET file_path == w.files[w.current_file_index + 1]
         IN  IF /\ file_path \in DOMAIN w.suggestions
                /\ IsFilingSuggestion(w.suggestions[file_path])
             THEN [w EXCEPT !.suggestions[file_path].destination = text]
             ELSE [w EXCEPT !.suggestions =
                      Put(@, file_path,
                          Filing(file_path.name, text, 100, "Manual override"))]

(* QLineEdit.setText / clear: textChanged is emitted when the text differs *)
(* from the one shown, and reaches the main window through                 *)
(* FileViewer._on_filename_changed / _on_destination_changed.              *)
filename_edit_setText(w, text) ==
    IF w.crashed \/ text = w.filename_edit THEN w
    ELSE on_viewer_filename_changed([w EXCEPT !.filename_edit = text], text)

dest_edit_setText(w, text) ==
    IF w.crashed \/ text = w.dest_edit THEN w
    ELSE on_viewer_destination_changed([w EXCEPT !.dest_edit = text], text)

(* FileViewer.set_suggestion, FileViewer.clear_suggestion *)
set_suggestion(w, s) ==
    dest_edit_setText(filename_edit_setText(w, s.filename), s.destination)

clear_suggestion(w) ==
    dest_edit_setText(filename_edit_setText(w, <<>>), <<>>)

(* MainWindow._on_file_selected for row (0-based) *)
on_file_selected(w, row) ==
    IF w.crashed \/ row < 0 \/ row >= Len(w.files) THEN w
    ELSE LET selected == [w EXCEPT !.current_file_index = row]
             file_path == w.files[row + 1]
         IN  IF /\ file_path \in DOMAIN w.suggestions
                /\ IsFilingSuggestion(w.suggestions[file_path])
             THEN set_suggestion(selected, w.suggestions[file_path])
             ELSE clear_suggestion(selected)

AllChecked(found) == [i \in 1..Len(found) |-> TRUE]

(* MainWindow._load_folder, given what the globs found *)
load_folder(w, found) ==
    LET loaded_window ==
            [w EXCEPT !.files = found,
                      !.checked = AllChecked(found),
                      !.suggestions =
                          [p \in Elements(found) |->
                              Filing(p.name, <<>>, 100, "Current state")]]
    IN  IF found # <<>> THEN on_file_selected(loaded_window, 0)
        ELSE loaded_window

(* MainWindow._refresh_folder_preserving_state, given what the globs found *)
refresh_folder_preserving_state(w, found) ==
    LET refreshed ==
            [w EXCEPT !.files = found,
                      !.checked = AllChecked(found),
                      !.suggestions =
                          [p \in DOMAIN w.suggestions \cup Elements(found) |->
                              IF p \in DOMAIN w.suggestions
                              THEN w.suggestions[p]
                              ELSE Filing(p.name, <<>>, 100, "Refreshed")]]
        new_index == IF /\ 0 <= w.current_file_index
                        /\ w.current_file_index < Len(found)
                     THEN w.current_file_index ELSE 0
    IN  IF found # <<>> THEN on_file_selected(refreshed, new_index)
        ELSE refreshed

(* MainWindow._on_file_processed *)
on_file_processed(w, file_path, result) ==
    LET stored == [w EXCEPT !.suggestions = Put(@, file_path, result)]
    IN  IF IsException(result) THEN stored
        ELSE IF stored.current_file_index < 0 THEN stored
        ELSE IF stored.current_file_index >= Len(stored.files)
        THEN [stored EXCEPT !.crashed = TRUE]
        ELSE IF stored.files[stored.current_file_index + 1] = file_path
        THEN set_suggestion(stored, result)
        ELSE stored

(* MainWindow._get_selected_files, from row i on: (path, suggestion) *)
RECURSIVE get_selected_files(_, _)
get_selected_files(w, i) ==
    IF i > Len(w.files) THEN <<>>
    ELSE LET file_path == w.files[i]
             picked == /\ w.checked[i]
                       /\ file_path \in DOMAIN w.suggestions
                       /\ IsFilingSuggestion(w.suggestions[file_path])
         IN  (IF picked
              THEN <<[path |-> file_path,
                      suggestion |-> w.suggestions[file_path]]>>
              ELSE <<>>) \o get_selected_files(w, i + 1)

(* The loops of _execute_rename and _execute_move over the selected files. *)
(* st is [fs, migrated, success_count, error_count, renamed, refused]:     *)
(* renamed the (old, new) pairs of the renames done, refused the files     *)
(* whose target was found to exist.  oserror: the operating system         *)
(* refuses this file's rename (or mkdir), so the try block raises.         *)
StartOp(fs) ==
    [fs |-> fs, migrated |-> <<>>, success_count |-> 0, error_count |-> 0,
     renamed |-> {}, refused |-> {}]

(* The try block with Path.rename called without looking at the target. *)
rename_file_overwrite(st, file_path, new_path, suggestion, oserror) ==
    IF oserror \/ file_path \notin DOMAIN st.fs \/ new_path.name = <<>>
    THEN [st EXCEPT !.error_count = @ + 1]
    ELSE [st EXCEPT !.fs = os_rename(@, file_path, new_path),
                    !.migrated = Put(@, new_path, suggestion),
                    !.success_count = @ + 1,
                    !.renamed = @ \cup {<<file_path, new_path>>}]

(* The try block of both loops (lines 551-567, 631-647). *)
rename_file(st, file_path, new_path, suggestion, oserror) ==
    IF exists(st.fs, new_path) /\ new_path # file_path
    THEN [st EXCEPT !.error_count = @ + 1,
                    !.refused = @ \cup {file_path}]
    ELSE IF oserror \/ file_path \notin DOMAIN st.fs
    THEN [st EXCEPT !.error_count = @ + 1]
    ELSE [st EXCEPT !.fs = os_rename(@, file_path, new_path),
                    !.migrated = Put(@, new_path, suggestion),
                    !.success_count = @ + 1,
                    !.renamed = @ \cup {<<file_path, new_path>>}]

rename_target(entry) == joinpath(entry.path.dir, entry.suggestion.filename)

move_target(entry) ==
    joinpath(subdir(entry.path.dir, entry.suggestion.destination),
             entry.suggestion.filename)

RECURSIVE rename_loop(_, _, _, _)
rename_loop(st, selected, i, bad) ==
    IF i > Len(selected) THEN st
    ELSE rename_loop(rename_file(st, selected[i].path,
                                 rename_target(selected[i]),
                                 selected[i].suggestion,
                                 selected[i].path \in bad),
                     selected, i + 1, bad)

RECURSIVE move_loop(_, _, _, _)
move_loop(st, selected, i, bad) ==
    IF i > Len(selected) THEN st
    ELSE IF selected[i].suggestion.destination = <<>>
    THEN move_loop(st, selected, i + 1, bad)
    ELSE move_loop(rename_file(st, selected[i].path,
                               move_target(selected[i]),
                               selected[i].suggestion,
                               selected[i].path \in bad),
                   selected, i + 1, bad)

(* Lines 572-581: the entries of the renamed files move to their new paths. *)
migrate_suggestions(entries, selected, migrated) ==
    LET popped == {selected[i].path : i \in
                     {j \in 1..Len(selected) :
                        rename_target(selected[j]) \in DOMAIN migrated}}
    IN  Update(Without(entries, popped), migrated)

(* The window after _execute_rename's loop gave st; found: the re-scan. *)
after_rename(w, st, selected, found) ==
    IF st.success_count = 0 THEN w
    ELSE LET migrated == [w EXCEPT !.suggestions =
                             migrate_suggestions(@, selected, st.migrated)]
         IN  IF w.files # <<>>
             THEN refresh_folder_preserving_state(migrated, found)
             ELSE migrated

(* The window after _execute_move's loop gave st; found: the reload. *)
after_move(w, st, found) ==
    IF st.success_count = 0 \/ w.files = <<>> THEN w
    ELSE load_folder(w, found)

Rescans(fs, w, st) ==
    IF st.success_count > 0 /\ w.files # <<>>
    THEN glob_files(fs, w.files[1].dir, 1)
    ELSE {<<>>}

(* The files the operating system refuses in one operation: at most one. *)
OsErrors(selected) ==
    {{}} \cup {{selected[i].path} : i \in 1..Len(selected)}

(* What the operation did, for the record. *)
OpRecord(kind, selected, st) ==
    [kind |-> kind,
     targets |-> {<<selected[i].path,
                    IF kind = "rename" THEN rename_target(selected[i])
                    ELSE move_target(selected[i])>> : i \in 1..Len(selected)},
     success_count |-> st.success_count, error_count |-> st.error_count,
     renamed |-> st.renamed, refused |-> st.refused,
     filed |-> {pair[1] : pair \in {r \in st.renamed :
                                       r[1] # r[2] /\ r[1] \in failed}}]

(* _process_selected, lines 404-405: both buttons are disabled. *)
buttons_disabled(b) == [b EXCEPT !.process = FALSE, !.context = FALSE]

(* ProcessingThread.run after the emissions for one file: the loop goes on *)
(* whatever the result was.                                                *)
thread_next_stop(t, result) ==
    [t EXCEPT !.idx = @ + 1,
              !.pc = IF t.idx = Len(t.files) \/ IsException(result)
                     THEN "finish" ELSE "analyze"]

thread_next(t, result) ==
    [t EXCEPT !.idx = @ + 1,
              !.pc = IF t.idx = Len(t.files) THEN "finish" ELSE "analyze"]

FileProcessed(file_path, result) ==
    [sig |-> "file_processed", path |-> file_path, result |-> result,
     idx |-> 0, total |-> 0]
Progress(idx, total) ==
    [sig |-> "progress", path |-> GuiPath(<<>>, <<>>), result |-> AnalysisError,
     idx |-> idx, total |-> total]
Finished ==
    [sig |-> "finished", path |-> GuiPath(<<>>, <<>>), result |-> AnalysisError,
     idx |-> 0, total |-> 0]
ContextGenerated ==
    [sig |-> "context_generated", path |-> GuiPath(<<>>, <<>>),
     result |-> AnalysisError, idx |-> 0, total |-> 0]

SetWindow(w) ==
    /\ files' = w.files
    /\ checked' = w.checked
    /\ suggestions' = w.suggestions
    /\ current_file_index' = w.current_file_index
    /\ filename_edit' = w.filename_edit
    /\ dest_edit' = w.dest_edit
    /\ app' = IF w.crashed THEN "aborted" ELSE app

windowVars == <<files, checked, suggestions, current_file_index,
                filename_edit, dest_edit, app>>

otherVars == <<max_dimension, coreVars, configVars, serviceVars, factoryVars,
               requestVars, workerVars, promptVars>>

(* The user can act on the window: it is enabled and no dialog is open. *)
UserCanAct ==
    /\ app = "running" /\ buttons.window /\ dialog.kind = "none"
    /\ started.actions < MaxActions

Acted == [started EXCEPT !.actions = @ + 1]

InitGui ==
    /\ disk = InitialDisk
    /\ files = <<>>
    /\ checked = <<>>
    /\ suggestions = <<>>
    /\ current_file_index = -1
    /\ filename_edit = <<>>
    /\ dest_edit = <<>>
    /\ buttons = [process |-> TRUE, context |-> TRUE, window |-> TRUE]
    /\ processing_thread = NoThread
    /\ context_thread = "none"
    /\ events = <<>>
    /\ dialog = NoDialog
    /\ app = "running"
    /\ emitted = <<>>
    /\ started = NoStarted
    /\ typed = FALSE
    /\ failed = {}
    /\ last_op = NoOp
    /\ max_dimension = DefaultMaxDimension
    /\ IdleCore
    /\ IdleConfig
    /\ IdleService
    /\ IdleFactory
    /\ IdleRequest
    /\ IdleWorkers
    /\ IdlePrompt

(* _open_folder: the folder chosen in the file dialog, then _load_folder *)
OpenFolder ==
    /\ UserCanAct
    /\ \E folder \in Folders : \E found \in glob_files(disk, folder, 1) :
          SetWindow(load_folder(Window, found))
    /\ started' = Acted
    /\ UNCHANGED <<disk, buttons, processing_thread, context_thread, events,
                   dialog, emitted, typed, failed, last_op, otherVars>>

(* The user makes another row the current one: _on_file_selected *)
SelectFile ==
    /\ UserCanAct
    /\ \E row \in 0..(Len(files) - 1) :
          /\ row # current_file_index
          /\ SetWindow(on_file_selected(Window, row))
    /\ started' = Acted
    /\ UNCHANGED <<disk, buttons, processing_thread, context_thread, events,
                   dialog, emitted, typed, failed, last_op,
                   otherVars>>

(* The user ticks or unticks a row's check box. *)
ToggleCheck ==
    /\ UserCanAct
    /\ \E i \in 1..Len(files) : checked' = [checked EXCEPT ![i] = ~@]
    /\ started' = Acted
    /\ UNCHANGED <<disk, files, suggestions, current_file_index,
                   filename_edit, dest_edit, app, buttons, processing_thread,
                   context_thread, events, dialog, emitted, typed,
                   failed, last_op, otherVars>>

(* _select_all_files, _select_no_files *)
SelectAllFiles ==
    /\ UserCanAct
    /\ checked' = [i \in 1..Len(files) |-> TRUE]
    /\ checked' # checked
    /\ started' = Acted
    /\ UNCHANGED <<disk, files, suggestions, current_file_index,
                   filename_edit, dest_edit, app, buttons, processing_thread,
                   context_thread, events, dialog, emitted, typed,
                   failed, last_op, otherVars>>

SelectNoFiles ==
    /\ UserCanAct
    /\ checked' = [i \in 1..Len(files) |-> FALSE]
    /\ checked' # checked
    /\ started' = Acted
    /\ UNCHANGED <<disk, files, suggestions, current_file_index,
                   filename_edit, dest_edit, app, buttons, processing_thread,
                   context_thread, events, dialog, emitted, typed,
                   failed, last_op, otherVars>>

(* The user edits the filename field / the destination field. *)
TypeFilename ==
    /\ UserCanAct
    /\ \E text \in TypedFilenames :
          /\ text # filename_edit
          /\ SetWindow(filename_edit_setText(Window, text))
    /\ typed' = TRUE
    /\ started' = Acted
    /\ UNCHANGED <<disk, buttons, processing_thread, context_thread, events,
                   dialog, emitted, failed, last_op, otherVars>>

TypeDestination ==
    /\ UserCanAct
    /\ \E text \in TypedDestinations :
          /\ text # dest_edit
          /\ SetWindow(dest_edit_setText(Window, text))
    /\ typed' = TRUE
    /\ started' = Acted
    /\ UNCHANGED <<disk, buttons, processing_thread, context_thread, events,
                   dialog, emitted, failed, last_op, otherVars>>

CheckedFiles == SelectSeq(files, LAMBDA p : \E i \in 1..Len(files) :
                                     files[i] = p /\ checked[i])

(* _process_selected with at least one row checked *)
ProcessSelected ==
    /\ UserCanAct
    /\ buttons.process
    /\ CheckedFiles # <<>>
    /\ buttons' = buttons_disabled(buttons)
    /\ processing_thread' = [pc |-> "analyze", files |-> CheckedFiles, idx |-> 1]
    /\ emitted' = <<>>
    /\ started' = [Acted EXCEPT !.batches = @ + 1]
    /\ UNCHANGED <<disk, windowVars, context_thread, events, dialog, typed,
                   failed, last_op, otherVars>>

(* ProcessingThread.run, one pass of the loop: analyze_document, then      *)
(* file_processed and progress are emitted.                                *)
ThreadFile ==
    /\ app = "running"
    /\ processing_thread.pc = "analyze"
    /\ LET file_path == processing_thread.files[processing_thread.idx]
       IN  \E result \in ThreadResults(disk, file_path) :
              LET signals == <<FileProcessed(file_path, result),
                               Progress(processing_thread.idx,
                                        Len(processing_thread.files))>>
              IN  /\ events' = events \o signals
                  /\ emitted' = emitted \o signals
                  /\ processing_thread' = thread_next(processing_thread, result)
    /\ UNCHANGED <<disk, windowVars, buttons, context_thread, dialog, started,
                   typed, failed, last_op, otherVars>>

(* ProcessingThread.run after the loop: finished is emitted. *)
ThreadFinish ==
    /\ app = "running"
    /\ processing_thread.pc = "finish"
    /\ events' = Append(events, Finished)
    /\ emitted' = Append(emitted, Finished)
    /\ processing_thread' = [processing_thread EXCEPT !.pc = "done"]
    /\ UNCHANGED <<disk, windowVars, buttons, context_thread, dialog, started,
                   typed, failed, last_op, otherVars>>

(* The main thread takes the oldest queued signal: _on_file_processed,     *)
(* _on_progress, _on_processing_finished, _on_context_generated.           *)
HandleSignal ==
    /\ app = "running"
    /\ events # <<>>
    /\ events' = Tail(events)
    /\ LET e == Head(events)
       IN  /\ SetWindow(IF e.sig = "file_processed"
                        THEN on_file_processed(Window, e.path, e.result)
                        ELSE Window)
           /\ failed' = IF e.sig # "file_processed" THEN failed
                        ELSE IF IsException(e.result)
                        THEN failed \cup {e.path}
                        ELSE failed \ {e.path}
           /\ buttons' = IF e.sig = "finished"
                         THEN [buttons EXCEPT !.process = TRUE,
                                              !.context = TRUE]
                         ELSE IF e.sig = "context_generated"
                         THEN [buttons EXCEPT !.window = TRUE]
                         ELSE buttons
           /\ started' = IF e.sig = "finished"
                         THEN [started EXCEPT !.finished = @ + 1]
                         ELSE started
    /\ UNCHANGED <<disk, processing_thread, context_thread, dialog, emitted,
                   typed, last_op, otherVars>>

(* _execute_rename / _execute_move up to the confirmation dialog. *)
AskRename ==
    /\ UserCanAct
    /\ get_selected_files(Window, 1) # <<>>
    /\ dialog' = [kind |-> "rename", selected |-> get_selected_files(Window, 1)]
    /\ started' = Acted
    /\ UNCHANGED <<disk, windowVars, buttons, processing_thread,
                   context_thread, events, emitted, typed, failed, last_op,
                   otherVars>>

AskMove ==
    /\ UserCanAct
    /\ get_selected_files(Window, 1) # <<>>
    /\ dialog' = [kind |-> "move", selected |-> get_selected_files(Window, 1)]
    /\ started' = Acted
    /\ UNCHANGED <<disk, windowVars, buttons, processing_thread,
                   context_thread, events, emitted, typed, failed, last_op,
                   otherVars>>

(* The user answers No. *)
AnswerNo ==
    /\ app = "running"
    /\ dialog.kind # "none"
    /\ dialog' = NoDialog
    /\ UNCHANGED <<disk, windowVars, buttons, processing_thread,
                   context_thread, events, emitted, started, typed, failed,
                   last_op, otherVars>>

(* The user answers Yes: the rest of _execute_rename. *)
RenameYes ==
    /\ app = "running"
    /\ dialog.kind = "rename"
    /\ \E bad \in OsErrors(dialog.selected) :
          LET st == rename_loop(StartOp(disk), dialog.selected, 1, bad)
          IN  /\ disk' = st.fs
              /\ last_op' = OpRecord("rename", dialog.selected, st)
              /\ \E found \in Rescans(st.fs, Window, st) :
                    SetWindow(after_rename(Window, st, dialog.selected, found))
    /\ dialog' = NoDialog
    /\ UNCHANGED <<buttons, processing_thread, context_thread, events,
                   emitted, started, typed, failed, otherVars>>

(* The user answers Yes: the rest of _execute_move. *)
MoveYes ==
    /\ app = "running"
    /\ dialog.kind = "move"
    /\ \E bad \in OsErrors(dialog.selected) :
          LET st == move_loop(StartOp(disk), dialog.selected, 1, bad)
          IN  /\ disk' = st.fs
              /\ last_op' = OpRecord("move", dialog.selected, st)
              /\ \E found \in Rescans(st.fs, Window, st) :
                    SetWindow(after_move(Window, st, found))
    /\ dialog' = NoDialog
    /\ UNCHANGED <<buttons, processing_thread, context_thread, events,
                   emitted, started, typed, failed, otherVars>>

(* _generate_context, confirmed: the window is disabled, the thread starts *)
GenerateContextStart ==
    /\ UserCanAct
    /\ buttons.context
    /\ context_thread # "running"
    /\ buttons' = [buttons EXCEPT !.window = FALSE]
    /\ context_thread' = "running"
    /\ started' = Acted
    /\ UNCHANGED <<disk, windowVars, processing_thread, events, dialog,
                   emitted, typed, failed, last_op, otherVars>>

(* ContextGenerationThread.run: finished(context or exception) is emitted *)
ContextThreadRun ==
    /\ app = "running"
    /\ context_thread = "running"
    /\ events' = Append(events, ContextGenerated)
    /\ context_thread' = "done"
    /\ UNCHANGED <<disk, windowVars, buttons, processing_thread, dialog,
                   emitted, started, typed, failed, last_op, otherVars>>

NextGui ==
    \/ OpenFolder \/ SelectFile \/ ToggleCheck \/ SelectAllFiles
    \/ SelectNoFiles \/ TypeFilename \/ TypeDestination \/ ProcessSelected
    \/ ThreadFile \/ ThreadFinish \/ HandleSignal \/ AskRename \/ AskMove
    \/ AnswerNo \/ RenameYes \/ MoveYes \/ GenerateContextStart
    \/ ContextThreadRun

SpecGui == InitGui /\ [][NextGui]_vars

GuiTypeOk == app \in {"running", "aborted"}

(* The signals a batch over batch_files emits, as far as log goes: for     *)
(* the i-th file file_processed(path, result), then progress(i, n); after  *)
(* the last progress, finished.                                            *)
EmissionsInOrder(batch_files, log) ==
    LET n == Len(batch_files)
    IN  /\ Len(log) <= 2 * n + 1
        /\ \A k \in 1..Len(log) :
              IF k = 2 * n + 1 THEN log[k] = Finished
              ELSE IF k % 2 = 1
              THEN /\ log[k].sig = "file_processed"
                   /\ log[k].path = batch_files[(k + 1) \div 2]
              ELSE log[k] = Progress(k \div 2, n)

EmittedOk ==
    /\ EmissionsInOrder(processing_thread.files, emitted)
    /\ processing_thread.pc = "analyze" =>
          Len(emitted) = 2 * (processing_thread.idx - 1)
    /\ processing_thread.pc = "finish" =>
          Len(emitted) = 2 * Len(processing_thread.files)
    /\ processing_thread.pc = "done" =>
          Len(emitted) = 2 * Len(processing_thread.files) + 1

(* The step in which the main window handles a file_processed signal       *)
(* leaves the result under the file's path.                                *)
ResultRecorded ==
    (/\ events # <<>>
     /\ events' = Tail(events)
     /\ Head(events).sig = "file_processed")
        => /\ Head(events).path \in DOMAIN suggestions'
           /\ suggestions'[Head(events).path] = Head(events).result

(* C23: a batch emits, for each file in order, one file_processed(path,    *)
(* result), result being the suggestion or the exception, followed by      *)
(* progress(i, n); an exception on one file does not stop the later files; *)
(* finished is emitted once, after the last progress; and the main window  *)
(* records each result it handles under the file's path.                   *)
C23_BatchResilience == [][EmittedOk' /\ ResultRecorded]_vars

C23_Witness ==
    /\ processing_thread.pc = "done"
    /\ Len(processing_thread.files) = 2
    /\ Len(emitted) = 5
    /\ IsException(emitted[1].result)
    /\ IsFilingSuggestion(emitted[3].result)
    /\ events = <<>>
    /\ started.finished = 1
    /\ suggestions[emitted[1].path] = AnalysisError
    /\ suggestions[emitted[3].path] = emitted[3].result

(* C24: a rename or move never overwrites.  Every file is still on the     *)
(* disk; a file whose target existed and was not the file itself is left   *)
(* under its path and counted as an error; of two selected files with the  *)
(* same target at most one was renamed to it, and one that was not is      *)
(* still under its old path.                                               *)
C24_NeverOverwrites ==
    /\ \A id \in FileIds : \E p \in DOMAIN disk : disk[p] = id
    /\ \A p \in last_op.refused :
          p \in DOMAIN disk /\ \A r \in last_op.renamed : r[1] # p
    /\ last_op.error_count >= Cardinality(last_op.refused)
    /\ \A a \in last_op.targets : \A b \in last_op.targets :
          (a[1] # b[1] /\ a[2] = b[2]) =>
              /\ ~(a \in last_op.renamed /\ b \in last_op.renamed)
              /\ a \notin last_op.renamed => a[1] \in DOMAIN disk

C24_Witness ==
    /\ last_op.kind = "rename"
    /\ last_op.success_count = 1
    /\ last_op.error_count = 1
    /\ \E a \in last_op.targets : \E b \in last_op.targets :
          /\ a[1] # b[1] /\ a[2] = b[2]
          /\ a \in last_op.renamed
          /\ b[1] \in last_op.refused
          /\ a[2] \in DOMAIN disk /\ b[1] \in DOMAIN disk
          /\ a[1] \notin DOMAIN disk

(* A listed file that the operation recorded in op did not rename. *)
NotRenamed(op, p) == \A r \in op.renamed : r[1] # p

(* C25: after Rename Selected Files every listed file that was not renamed *)
(* (unselected, target existed, or the rename raised) still has, under its *)
(* unchanged path, the suggestion it had before the operation.             *)
C25_RenameKeepsOthers ==
    [][RenameYes =>
          \A p \in DOMAIN suggestions :
              (p \in Elements(files) /\ NotRenamed(last_op', p)) =>
                  /\ p \in DOMAIN suggestions'
                  /\ suggestions'[p] = suggestions[p]]_vars

(* C26: without the user editing the filename or destination field, no     *)
(* file whose most recent recorded analysis raised is renamed or moved to  *)
(* another path.                                                           *)
C26_FailedNeverFiled == ~typed => last_op.filed = {}

(* C27: in every reachable state every key of suggestions is a path in     *)
(* files, and every file in files has an entry in suggestions.             *)
C27_SuggestionsMatchFiles ==
    app = "running" => DOMAIN suggestions = Elements(files)

(* The entry of p, an exception, is gone or different after the step. *)
ExceptionLost(p) ==
    /\ p \in DOMAIN suggestions
    /\ IsException(suggestions[p])
    /\ ~(p \in DOMAIN suggestions' /\ suggestions'[p] = suggestions[p])

(* C28: once an exception is stored for a file, its entry changes only     *)
(* when the file is processed again, the folder is reloaded, or the user   *)
(* edits the filename or destination field; selecting a file leaves it.    *)
C28_ExceptionStays ==
    [][\A p \in DOMAIN suggestions :
          ExceptionLost(p) =>
              \/ /\ HandleSignal
                 /\ Head(events).sig = "file_processed"
                 /\ Head(events).path = p
              \/ OpenFolder
              \/ MoveYes
              \/ TypeFilename
              \/ TypeDestination]_vars

(* The threads run and the event loop handles every queued signal (also    *)
(* while a modal dialog is open).                                          *)
SpecGuiFair ==
    /\ SpecGui
    /\ WF_vars(ThreadFile)
    /\ WF_vars(ThreadFinish)
    /\ WF_vars(HandleSignal)
    /\ WF_vars(ContextThreadRun)

(* Batches started whose finished signal has not been handled yet. *)
InFlight == started.batches - started.finished

BatchExclusive ==
    /\ InFlight \in {0, 1}
    /\ InFlight = 1 =>
          /\ ~buttons.process
          /\ ~buttons.context
          /\ context_thread # "running"
    /\ context_thread = "running" => InFlight = 0

BatchDone == InFlight = 0 /\ buttons.process /\ buttons.context

(* C30: from the start of a batch until its finished signal is handled the *)
(* process and context buttons stay disabled, so no second                 *)
(* ProcessingThread and no ContextGenerationThread starts; and after every *)
(* batch finished is eventually handled and both buttons are enabled.      *)
C30_OneBatchAtATime == [](BatchExclusive) /\ ((InFlight = 1) ~> BatchDone)

(* The same, as long as the process is alive. *)
BatchDoneOrAborted == (InFlight = 1) ~> (BatchDone \/ app = "aborted")

====
